---- MODULE Spec2Model ----
(***************************************************************************)
(* Model of nova/virt/vmwareapi/vm_util.py: the paginated property-query   *)
(* traversals (_get_object_from_results, get_datastore_ref_and_name) and   *)
(* the managed-object lookups composed from them.                          *)
(*                                                                         *)
(* One behaviour is one call of one public function (req) against one      *)
(* remote inventory.  Every remote round-trip (session._call_method) is    *)
(* appended to `calls`; the remote side may fail any round-trip.           *)
(***************************************************************************)
EXTENDS Integers, Sequences, FiniteSets, TLC

\* Bounds of the model.
MaxObjects == 3
MaxPageSize == 2
MaxClusterObjects == 2
MaxPaths == 2
MaxHostObjects == 2
MaxVifs == 2
MaxNameLen == 2
MaxPathLen == 3

VARIABLES inventory, pageSize, req, pc, stage, ffargs, results, ffret, ret,
          calls, queries, open, cls, res, vm_ref, property_set, host_id

vars == <<inventory, pageSize, req, pc, stage, ffargs, results, ffret, ret,
          calls, queries, open, cls, res, vm_ref, property_set, host_id>>

----------------------------------------------------------------------------
\* Values

None == [kind |-> "None"]

MOR(t, v) == [kind |-> "MOR", type |-> t, value |-> v]

Prop(n, v) == [name |-> n, val |-> v]

ObjectContent(obj, propSet) ==
    [kind |-> "ObjectContent", obj |-> obj, propSet |-> propSet]

Token(q, k) == [kind |-> "Token", query |-> q, page |-> k]

RetrieveResult(objects, token) ==
    [kind |-> "RetrieveResult", objects |-> objects, token |-> token]

List(items) == [kind |-> "list", items |-> items]

Raise(exc, msg) == [kind |-> "raise", exc |-> exc, msg |-> msg]

IsRaise(x) == x.kind = "raise"

Running == [kind |-> "running"]

Return(v) == [kind |-> "return", val |-> v]

Min(a, b) == IF a < b THEN a ELSE b

SeqsUpTo(S, n) == UNION {[1..k -> S] : k \in 0..n}

----------------------------------------------------------------------------
\* The remote property collector (vim_util, behind session._call_method)

\* Page k of query q over the objects inv, at most ps objects a page; the
\* page carries a token exactly when objects remain after it.
ServerPage(inv, ps, q, k) ==
    LET n  == Len(inv)
        lo == (k - 1) * ps + 1
        hi == Min(k * ps, n)
    IN  IF lo > n THEN None
        ELSE RetrieveResult(SubSeq(inv, lo, hi),
                            IF hi < n THEN Token(q, k) ELSE None)

\* vim_util.get_objects: the first page, or nothing for an empty inventory.
get_objects(q, type) == ServerPage(inventory[type], pageSize, q, 1)

\* vim_util.continue_to_get_objects: the page after the token's page.
continue_to_get_objects(token) ==
    ServerPage(inventory[queries[token.query]], pageSize,
               token.query, token.page + 1)

Call(method, arg, ok) == [method |-> method, arg |-> arg, ok |-> ok]

----------------------------------------------------------------------------
\* Page helpers of vm_util

\* The token read once, from the first page, and reused for every page.
_get_token_stale(rs) ==
    IF rs = None \/ rs.token = None THEN None ELSE Token(rs.token.query, 1)

\* getattr(results, 'token', None)
_get_token(rs) == IF rs = None THEN None ELSE rs.token

RECURSIVE RefScan(_, _, _)
RefScan(objects, value, i) ==
    IF i > Len(objects) THEN None
    ELSE IF objects[i].obj.value = value THEN objects[i]
    ELSE RefScan(objects, value, i + 1)

_get_reference_for_value(rs, value) == RefScan(rs.objects, value, 1)

\* propSet[0] of an entry that carries no property raises.
RECURSIVE PropScan(_, _, _)
PropScan(objects, value, i) ==
    IF i > Len(objects) THEN None
    ELSE IF Len(objects[i].propSet) = 0
         THEN Raise("IndexError", "propSet[0]")
    ELSE IF objects[i].propSet[1].val = value THEN objects[i].obj
    ELSE PropScan(objects, value, i + 1)

\* The scan that keeps the last match of the page instead of the first.
RECURSIVE PropScanLast(_, _, _, _)
PropScanLast(objects, value, i, found) ==
    IF i > Len(objects) THEN found
    ELSE IF Len(objects[i].propSet) = 0
         THEN Raise("IndexError", "propSet[0]")
    ELSE PropScanLast(objects, value, i + 1,
                      IF objects[i].propSet[1].val = value
                      THEN objects[i].obj ELSE found)

_get_object_for_value_last(rs, value) ==
    PropScanLast(rs.objects, value, 1, None)

_get_object_for_value(rs, value) == PropScan(rs.objects, value, 1)

ApplyFunc(func, rs, value) ==
    IF func = "_get_reference_for_value"
    THEN _get_reference_for_value(rs, value)
    ELSE _get_object_for_value(rs, value)

\* The iteration that returns a match without cancelling the page's token.
FFStepNoCancel(rs, value, func) ==
    IF rs = None
    THEN [act |-> "return", token |-> None, val |-> None]
    ELSE LET token  == _get_token(rs)
             object == ApplyFunc(func, rs, value)
         IN  IF IsRaise(object)
             THEN [act |-> "raise", token |-> token, val |-> object]
             ELSE IF object # None
             THEN [act |-> "return", token |-> None, val |-> object]
             ELSE IF token # None
             THEN [act |-> "continue", token |-> token, val |-> None]
             ELSE [act |-> "return", token |-> None, val |-> None]

\* The iteration that fetches the next page whenever there is one, and
\* looks at the match only on the last page.
FFStepEager(rs, value, func) ==
    IF rs = None
    THEN [act |-> "return", token |-> None, val |-> None]
    ELSE LET token  == _get_token(rs)
             object == ApplyFunc(func, rs, value)
         IN  IF IsRaise(object)
             THEN [act |-> "raise", token |-> token, val |-> object]
             ELSE IF token # None
             THEN [act |-> "continue", token |-> token, val |-> None]
             ELSE [act |-> "return", token |-> None, val |-> object]

\* One iteration of the while loop of _get_object_from_results: what it
\* does with the page it holds.
FFStep(rs, value, func) ==
    IF rs = None
    THEN [act |-> "return", token |-> None, val |-> None]
    ELSE LET token  == _get_token(rs)
             object == ApplyFunc(func, rs, value)
         IN  IF IsRaise(object)
             THEN [act |-> "raise", token |-> token, val |-> object]
             ELSE IF object # None
             THEN IF token # None
                  THEN [act |-> "cancel_return", token |-> token, val |-> object]
                  ELSE [act |-> "return", token |-> None, val |-> object]
             ELSE IF token # None
             THEN [act |-> "continue", token |-> token, val |-> None]
             ELSE [act |-> "return", token |-> None, val |-> None]

\* dict([(prop.name, prop.val) for prop in elem.propSet]): the value the
\* dict holds for a name is the one of the last property of that name.
HasKey(propSet, name) == \E i \in 1..Len(propSet) : propSet[i].name = name

DictGet(propSet, name) ==
    LET i == CHOOSE k \in 1..Len(propSet) :
                /\ propSet[k].name = name
                /\ \A j \in (k + 1)..Len(propSet) : propSet[j].name # name
    IN  propSet[i].val

\* A name is a sequence of characters; datastore_regex.match(ds_name) of a
\* literal pattern holds when the name begins with the pattern.
RegexMatch(pattern, name) ==
    /\ Len(pattern) <= Len(name)
    /\ SubSeq(name, 1, Len(pattern)) = pattern

DatastoreTuple(obj, name, capacity, freeSpace) ==
    [kind |-> "tuple", ref |-> obj, name |-> name,
     capacity |-> capacity, freeSpace |-> freeSpace]

\* The loop of _get_datastore_ref_and_name from entry i on; a property read
\* from the dict that is not there raises KeyError.
RECURSIVE DatastoreScan(_, _, _)
DatastoreScan(objects, datastore_regex, i) ==
    IF i > Len(objects) THEN None
    ELSE LET d == objects[i].propSet
         IN  IF ~HasKey(d, "summary.type") THEN Raise("KeyError", "summary.type")
             ELSE IF ~HasKey(d, "summary.name")
                  THEN Raise("KeyError", "summary.name")
             ELSE IF DictGet(d, "summary.type") \notin {"VMFS", "NFS"}
                  THEN DatastoreScan(objects, datastore_regex, i + 1)
             ELSE IF ~HasKey(d, "summary.accessible")
                  THEN Raise("KeyError", "summary.accessible")
             ELSE IF ~DictGet(d, "summary.accessible")
                  THEN DatastoreScan(objects, datastore_regex, i + 1)
             ELSE IF datastore_regex # None
                       /\ ~RegexMatch(datastore_regex.pattern,
                                      DictGet(d, "summary.name"))
                  THEN DatastoreScan(objects, datastore_regex, i + 1)
             ELSE IF ~HasKey(d, "summary.capacity")
                  THEN Raise("KeyError", "summary.capacity")
             ELSE IF ~HasKey(d, "summary.freeSpace")
                  THEN Raise("KeyError", "summary.freeSpace")
             ELSE DatastoreTuple(objects[i].obj,
                                 DictGet(d, "summary.name"),
                                 DictGet(d, "summary.capacity"),
                                 DictGet(d, "summary.freeSpace"))

\* The scan that does not look at summary.accessible.
RECURSIVE DatastoreScanAnyAccess(_, _, _)
DatastoreScanAnyAccess(objects, datastore_regex, i) ==
    IF i > Len(objects) THEN None
    ELSE LET d == objects[i].propSet
         IN  IF ~HasKey(d, "summary.type") THEN Raise("KeyError", "summary.type")
             ELSE IF ~HasKey(d, "summary.name")
                  THEN Raise("KeyError", "summary.name")
             ELSE IF DictGet(d, "summary.type") \notin {"VMFS", "NFS"}
                  THEN DatastoreScanAnyAccess(objects, datastore_regex, i + 1)
             ELSE IF datastore_regex # None
                       /\ ~RegexMatch(datastore_regex.pattern,
                                      DictGet(d, "summary.name"))
                  THEN DatastoreScanAnyAccess(objects, datastore_regex, i + 1)
             ELSE DatastoreTuple(objects[i].obj,
                                 DictGet(d, "summary.name"),
                                 DictGet(d, "summary.capacity"),
                                 DictGet(d, "summary.freeSpace"))

_get_datastore_ref_and_name_any_access(data_stores, datastore_regex) ==
    DatastoreScanAnyAccess(data_stores.objects, datastore_regex, 1)

_get_datastore_ref_and_name(data_stores, datastore_regex) ==
    DatastoreScan(data_stores.objects, datastore_regex, 1)

DefaultMessage == "Could not find the datastore reference(s)"

RegexMessage == "Datastore regex did not match any datastores"

\* The full scan that goes on to the next page although a datastore was
\* found on the page held.
DSStepKeepsFetching(data_stores, datastore_regex) ==
    IF data_stores = None
    THEN [act |-> "absent", token |-> None,
          val |-> Raise("DatastoreNotFound", DefaultMessage)]
    ELSE LET token == _get_token(data_stores)
             found == _get_datastore_ref_and_name(data_stores, datastore_regex)
         IN  IF IsRaise(found)
             THEN [act |-> "raise", token |-> token, val |-> found]
             ELSE IF token # None
             THEN [act |-> "continue", token |-> token, val |-> None]
             ELSE IF found # None
             THEN [act |-> "return", token |-> None, val |-> found]
             ELSE [act |-> "notfound", token |-> None,
                   val |-> Raise("DatastoreNotFound",
                                 IF datastore_regex # None
                                 THEN RegexMessage ELSE DefaultMessage)]

\* One iteration of the while loop of get_datastore_ref_and_name, and the
\* raise after the loop when there is no page to look at.
DSStep(data_stores, datastore_regex) ==
    IF data_stores = None
    THEN [act |-> "absent", token |-> None,
          val |-> Raise("DatastoreNotFound", DefaultMessage)]
    ELSE LET token == _get_token(data_stores)
             found == _get_datastore_ref_and_name(data_stores, datastore_regex)
         IN  IF IsRaise(found)
             THEN [act |-> "raise", token |-> token, val |-> found]
             ELSE IF found # None
             THEN IF token # None
                  THEN [act |-> "cancel_return", token |-> token, val |-> found]
                  ELSE [act |-> "return", token |-> None, val |-> found]
             ELSE IF token # None
             THEN [act |-> "continue", token |-> token, val |-> None]
             ELSE [act |-> "notfound", token |-> None,
                   val |-> Raise("DatastoreNotFound",
                                 IF datastore_regex # None
                                 THEN RegexMessage ELSE DefaultMessage)]

\* The characters str.strip() removes.
Whitespace == {" ", "\t", "\n"}

\* path.strip(): the name without its leading and trailing blanks.
RECURSIVE StripLeft(_)
StripLeft(str) ==
    IF Len(str) > 0 /\ str[1] \in Whitespace THEN StripLeft(Tail(str)) ELSE str

RECURSIVE StripRight(_)
StripRight(str) ==
    IF Len(str) > 0 /\ str[Len(str)] \in Whitespace
    THEN StripRight(SubSeq(str, 1, Len(str) - 1)) ELSE str

Strip(str) == StripRight(StripLeft(str))

\* find_entity_mor: the entries that carry a property set whose first
\* property equals the name, in the order of the list.
find_entity_mor(entity_list, entity_name) ==
    SelectSeq(entity_list,
              LAMBDA mor : Len(mor.propSet) > 0
                           /\ mor.propSet[1].val = entity_name)

\* The loop of get_all_cluster_refs_by_name over path_list[i..]: for every
\* path the matching clusters, then the matching resource pools.
RECURSIVE ListObj(_, _, _, _)
ListObj(path_list, clusters, pools, i) ==
    IF i > Len(path_list) THEN << >>
    ELSE LET res_mor == find_entity_mor(pools, path_list[i])
             cls_mor == find_entity_mor(clusters, path_list[i]) \o res_mor
         IN  [k \in 1..Len(cls_mor) |->
                 [obj |-> cls_mor[k].obj, path |-> cls_mor[k].propSet[1].val]]
             \o ListObj(path_list, clusters, pools, i + 1)

\* The remote inventory tree: the cluster that owns a resource pool and the
\* default resource pool of a cluster.
OwnerOf(value) ==
    IF value = "resgroup-1" THEN MOR("ClusterComputeResource", "domain-1")
    ELSE MOR("ClusterComputeResource", "domain-2")

RootPoolOf(value) ==
    IF value = "domain-1" THEN MOR("ResourcePool", "resgroup-1")
    ELSE MOR("ResourcePool", "resgroup-2")

\* get_dynamic_property_mor(session, mor_ref, attribute)
get_dynamic_property_mor(mor_ref, attribute) ==
    IF attribute = "owner" THEN OwnerOf(mor_ref.value)
    ELSE RootPoolOf(mor_ref.value)

DictSet(d, key, val) ==
    [k \in DOMAIN d \cup {key} |-> IF k = key THEN val ELSE d[k]]

\* The attribute get_dict_mor reads for an object.
DictAttribute(obj_ref) ==
    IF obj_ref.type = "ResourcePool" THEN "owner" ELSE "resourcePool"

\* The loop of get_dict_mor from entry i on, every property read succeeding.
RECURSIVE DictMors(_, _, _)
DictMors(list_obj, i, dict_mors) ==
    IF i > Len(list_obj) THEN dict_mors
    ELSE LET obj_ref == list_obj[i].obj
             other   == get_dynamic_property_mor(obj_ref, DictAttribute(obj_ref))
             entry   == IF obj_ref.type = "ResourcePool"
                        THEN [cluster_mor |-> other, res_pool_mor |-> obj_ref,
                              name |-> list_obj[i].path]
                        ELSE [cluster_mor |-> obj_ref, res_pool_mor |-> other,
                              name |-> list_obj[i].path]
         IN  DictMors(list_obj, i + 1, DictSet(dict_mors, obj_ref.value, entry))

EmptyDict == [k \in {} |-> None]

get_dict_mor(list_obj) == [kind |-> "dict", map |-> DictMors(list_obj, 1, EmptyDict)]

----------------------------------------------------------------------------
\* Host of a VM

\* _property_from_propSet from property i on: the first property of the
\* name, None when the loop ends without one.
RECURSIVE PropertyScan(_, _, _)
PropertyScan(propSet, name, i) ==
    IF i > Len(propSet) THEN None
    ELSE IF propSet[i].name = name THEN propSet[i]
    ELSE PropertyScan(propSet, name, i + 1)

_property_from_propSet(propSet, name) == PropertyScan(propSet, name, 1)

\* property_from_property_set from entry i on: the property of the first
\* entry that has one of the name, None when the loop ends without one.
RECURSIVE PropertySetScan(_, _, _)
PropertySetScan(property_name, objects, i) ==
    IF i > Len(objects) THEN None
    ELSE LET p == _property_from_propSet(objects[i].propSet, property_name)
         IN  IF p # None THEN p
             ELSE PropertySetScan(property_name, objects, i + 1)

property_from_property_set(property_name, ps) ==
    PropertySetScan(property_name, ps.objects, 1)

\* get_host_id_from_vm_ref that answers an absent host id when the property
\* is not there.
HostIdOrDefault(ps, ref) ==
    LET prop == property_from_property_set("runtime.host", ps)
    IN  IF prop # None THEN Return(prop.val.value)
        ELSE Return("")

\* get_host_id_from_vm_ref once the property result ps has arrived: the
\* host id, or the error raised.
HostId(ps, ref) ==
    LET prop == property_from_property_set("runtime.host", ps)
    IN  IF prop # None THEN Return(prop.val.value)
        ELSE Raise("RuntimeError", ref)

----------------------------------------------------------------------------
\* Spec builders

\* An optional argument that was supplied: None stands for one that was not.
Some(v) == [kind |-> "value", val |-> v]

\* x or default, for a string with default "" or a number with default 0.
OrElse(x, default) == IF x = None THEN default ELSE x.val

\* The truth value of an optional string.
Truthy(x) == x # None /\ x.val # ""

\* client_factory.create(type): a record of the type, no attribute assigned.
create(type) == [kind |-> type]

\* obj.name = val
SetAttr(obj, name, val) ==
    [k \in DOMAIN obj \cup {name} |-> IF k = name THEN val ELSE obj[k]]

copy_copy(obj) == obj

\* The connect policy of a device.
VirtualDeviceConnectInfo(allowGuestControl) ==
    [kind |-> "ns0:VirtualDeviceConnectInfo", startConnected |-> TRUE,
     allowGuestControl |-> allowGuestControl, connected |-> TRUE]

create_controller_spec(key, adapter_type) ==
    LET virtual_controller ==
            create(IF adapter_type = "busLogic"
                   THEN "ns0:VirtualBusLogicController"
                   ELSE IF adapter_type = "lsiLogicsas"
                   THEN "ns0:VirtualLsiLogicSASController"
                   ELSE "ns0:VirtualLsiLogicController")
    IN  [kind |-> "ns0:VirtualDeviceConfigSpec", operation |-> "add",
         device |-> virtual_controller @@
                    [key |-> key, busNumber |-> 0, sharedBus |-> "noSharing"]]

\* The backing create_network_spec selects for a network reference.
NetworkBacking(network_ref, network_name) ==
    IF network_ref # None /\ network_ref.type = "OpaqueNetwork"
    THEN [kind |-> "ns0:VirtualEthernetCardOpaqueNetworkBackingInfo",
          opaqueNetworkId |-> network_ref.network_id,
          opaqueNetworkType |-> network_ref.network_type]
    ELSE IF network_ref # None
              /\ network_ref.type = "DistributedVirtualPortgroup"
    THEN [kind |-> "ns0:VirtualEthernetCardDistributedVirtualPortBackingInfo",
          port |-> [kind |-> "ns0:DistributedVirtualSwitchPortConnection",
                    switchUuid |-> network_ref.dvsw,
                    portgroupKey |-> network_ref.dvpg]]
    ELSE [kind |-> "ns0:VirtualEthernetCardNetworkBackingInfo",
          deviceName |-> network_name]

\* 'ns0:' + vif_info['vif_model']
Ns0(vif_model) ==
    CASE vif_model = "e1000"          -> "ns0:e1000"
      [] vif_model = "VirtualE1000"   -> "ns0:VirtualE1000"
      [] vif_model = "VirtualVmxnet3" -> "ns0:VirtualVmxnet3"
      [] vif_model = "VirtualPCNet32" -> "ns0:VirtualPCNet32"

\* create_network_spec(client_factory, vif_info): the spec it returns (ret)
\* and the descriptor as the call leaves it (vif_info).
create_network_spec(vif_info) ==
    LET info == IF vif_info.vif_model = "e1000"
                THEN [vif_info EXCEPT !.vif_model = "VirtualE1000"]
                ELSE vif_info
        net_device ==
            create(Ns0(info.vif_model)) @@
            [connectable |-> VirtualDeviceConnectInfo(TRUE),
             backing |-> NetworkBacking(info.network_ref, info.network_name),
             key |-> -47, addressType |-> "manual",
             macAddress |-> info.mac_address, wakeOnLanEnabled |-> TRUE]
    IN  [ret |-> [kind |-> "ns0:VirtualDeviceConfigSpec",
                  operation |-> "add", device |-> net_device],
         vif_info |-> info]

\* The flat-file backing that sets eagerlyScrub for every disk type but
\* "thin".
DiskFileBackingScrubByDefault(disk_type, device_name) ==
    IF disk_type = "rdm" \/ disk_type = "rdmp"
    THEN [kind |-> "ns0:VirtualDiskRawDiskMappingVer1BackingInfo",
          compatibilityMode |-> IF disk_type = "rdm" THEN "virtualMode"
                                ELSE "physicalMode",
          diskMode |-> "independent_persistent",
          deviceName |-> OrElse(device_name, "")]
    ELSE LET flat == create("ns0:VirtualDiskFlatVer2BackingInfo") @@
                     [diskMode |-> "persistent"]
         IN  IF disk_type = "thin"
             THEN SetAttr(flat, "thinProvisioned", TRUE)
             ELSE SetAttr(flat, "eagerlyScrub", TRUE)

\* create_virtual_disk_spec: the backing chosen for the disk type, before
\* its file name is assigned.
DiskFileBacking(disk_type, device_name) ==
    IF disk_type = "rdm" \/ disk_type = "rdmp"
    THEN [kind |-> "ns0:VirtualDiskRawDiskMappingVer1BackingInfo",
          compatibilityMode |-> IF disk_type = "rdm" THEN "virtualMode"
                                ELSE "physicalMode",
          diskMode |-> "independent_persistent",
          deviceName |-> OrElse(device_name, "")]
    ELSE LET flat == create("ns0:VirtualDiskFlatVer2BackingInfo") @@
                     [diskMode |-> "persistent"]
         IN  IF disk_type = "thin"
             THEN SetAttr(flat, "thinProvisioned", TRUE)
             ELSE IF disk_type = "eagerZeroedThick"
             THEN SetAttr(flat, "eagerlyScrub", TRUE)
             ELSE flat

\* The linked clone made without a copy: the assignments reach the one
\* backing there is, which loses its file name.
DiskBackingNoCopy(disk_file_backing, linked_clone) ==
    IF ~linked_clone THEN disk_file_backing
    ELSE LET cleared == SetAttr(disk_file_backing, "fileName", "")
         IN  SetAttr(cleared, "parent", cleared)

\* create_virtual_disk_spec: the backing the disk gets, the backing built so
\* far or its linked clone.
DiskBacking(disk_file_backing, linked_clone) ==
    IF ~linked_clone THEN disk_file_backing
    ELSE SetAttr(SetAttr(copy_copy(disk_file_backing), "fileName", ""),
                 "parent", disk_file_backing)

create_virtual_disk_spec(controller_key, disk_type, file_path, disk_size, linked_clone, unit_number, device_name) ==
    LET virtual_device_config ==
            create("ns0:VirtualDeviceConfigSpec") @@ [operation |-> "add"]
        disk_file_backing ==
            SetAttr(DiskFileBacking(disk_type, device_name),
                    "fileName", OrElse(file_path, ""))
        virtual_disk ==
            create("ns0:VirtualDisk") @@
            [backing |-> DiskBacking(disk_file_backing, linked_clone),
             connectable |-> VirtualDeviceConnectInfo(FALSE),
             key |-> -100, controllerKey |-> controller_key,
             unitNumber |-> OrElse(unit_number, 0),
             capacityInKB |-> OrElse(disk_size, 0)]
    IN  SetAttr(IF file_path = None \/ linked_clone
                THEN SetAttr(virtual_device_config, "fileOperation", "create")
                ELSE virtual_device_config,
                "device", virtual_disk)

create_virtual_cdrom_spec(datastore, controller_key, file_path, cdrom_unit_number) ==
    [kind |-> "ns0:VirtualDeviceConfigSpec", operation |-> "add",
     device |-> [kind |-> "ns0:VirtualCdrom",
                 backing |-> [kind |-> "ns0:VirtualCdromIsoBackingInfo",
                              datastore |-> datastore,
                              fileName |-> file_path],
                 controllerKey |-> controller_key,
                 unitNumber |-> cdrom_unit_number,
                 key |-> -1,
                 connectable |-> VirtualDeviceConnectInfo(FALSE)]]

\* The disk attach that appends the synthesized controller after the disk.
get_vmdk_attach_config_spec_disk_first(adapter_type, disk_type, file_path, disk_size, linked_clone, controller_key, unit_number, device_name) ==
    LET synthesize == controller_key = None /\ adapter_type # "ide"
        key == IF controller_key # None THEN controller_key.val
               ELSE IF adapter_type = "ide" THEN 200 ELSE -101
        disk == create_virtual_disk_spec(key, disk_type, file_path, disk_size,
                                         linked_clone, unit_number, device_name)
    IN  [kind |-> "ns0:VirtualMachineConfigSpec",
         deviceChange |->
            <<disk>> \o (IF synthesize
                         THEN <<create_controller_spec(key, adapter_type)>>
                         ELSE << >>)]

get_vmdk_attach_config_spec(adapter_type, disk_type, file_path, disk_size, linked_clone, controller_key, unit_number, device_name) ==
    LET synthesize == controller_key = None /\ adapter_type # "ide"
        key == IF controller_key # None THEN controller_key.val
               ELSE IF adapter_type = "ide" THEN 200 ELSE -101
        disk == create_virtual_disk_spec(key, disk_type, file_path, disk_size,
                                         linked_clone, unit_number, device_name)
    IN  [kind |-> "ns0:VirtualMachineConfigSpec",
         deviceChange |->
            (IF synthesize
             THEN <<create_controller_spec(key, adapter_type)>>
             ELSE << >>) \o <<disk>>]

get_cdrom_attach_config_spec(datastore, file_path, cdrom_unit_number) ==
    [kind |-> "ns0:VirtualMachineConfigSpec",
     deviceChange |-> << create_virtual_cdrom_spec(datastore, 200, file_path,
                                                   cdrom_unit_number) >>]

\* The tool flags of a VM create spec.
ToolsConfigInfo ==
    [kind |-> "ns0:ToolsConfigInfo", afterPowerOn |-> TRUE,
     afterResume |-> TRUE, beforeGuestStandby |-> TRUE,
     beforeGuestShutdown |-> TRUE, beforeGuestReboot |-> TRUE]

\* "[" + data_store_name + "]"
VmPathName(data_store_name) == <<"[", data_store_name, "]">>

\* get_dummy_vm_create_spec: create_virtual_disk_spec is called with 1024 in
\* the place of controller_key and the controller key -101 in the place of
\* disk_type; the number, which equals none of the disk type names, is
\* written as the name "-101".
get_dummy_vm_create_spec(name, data_store_name) ==
    LET controller_spec == create_controller_spec(-101, "lsiLogic")
        disk_spec == create_virtual_disk_spec(1024, "-101", None, None,
                                              FALSE, None, None)
    IN  [kind |-> "ns0:VirtualMachineConfigSpec", name |-> name,
         guestId |-> "otherGuest",
         files |-> [kind |-> "ns0:VirtualMachineFileInfo",
                    vmPathName |-> VmPathName(data_store_name)],
         tools |-> ToolsConfigInfo, numCPUs |-> 1, memoryMB |-> 4,
         deviceChange |-> <<controller_spec, disk_spec>>]

\* "nvp.iface-id.%d" % i
IfaceIdKey(i) == <<"nvp.iface-id.", i>>

OptionValue(key, value) ==
    [kind |-> "ns0:OptionValue", key |-> key, value |-> value]

\* The option loop that numbers the interfaces by their position.
RECURSIVE IfaceOptionsByPosition(_, _, _)
IfaceOptionsByPosition(vif_infos, k, i) ==
    IF k > Len(vif_infos) THEN << >>
    ELSE IF Truthy(vif_infos[k].iface_id)
    THEN <<OptionValue(IfaceIdKey(i), vif_infos[k].iface_id.val)>>
         \o IfaceOptionsByPosition(vif_infos, k + 1, i + 1)
    ELSE IfaceOptionsByPosition(vif_infos, k + 1, i + 1)

\* The second loop of get_vm_create_spec from interface k on, i the index
\* the next option gets.
RECURSIVE IfaceOptions(_, _, _)
IfaceOptions(vif_infos, k, i) ==
    IF k > Len(vif_infos) THEN << >>
    ELSE IF Truthy(vif_infos[k].iface_id)
    THEN <<OptionValue(IfaceIdKey(i), vif_infos[k].iface_id.val)>>
         \o IfaceOptions(vif_infos, k + 1, i + 1)
    ELSE IfaceOptions(vif_infos, k + 1, i)

\* get_vm_create_spec: the spec it returns (ret) and the interface
\* descriptors as the call leaves them (vif_infos).
get_vm_create_spec(instance, data_store_name, vif_infos, os_type) ==
    LET made == [k \in 1..Len(vif_infos) |-> create_network_spec(vif_infos[k])]
        vif_spec_list == [k \in 1..Len(vif_infos) |-> made[k].ret]
        after == [k \in 1..Len(vif_infos) |-> made[k].vif_info]
        config_spec ==
            create("ns0:VirtualMachineConfigSpec") @@
            [name |-> instance.uuid, guestId |-> os_type,
             files |-> [kind |-> "ns0:VirtualMachineFileInfo",
                        vmPathName |-> VmPathName(data_store_name)],
             tools |-> ToolsConfigInfo,
             numCPUs |-> instance.vcpus, memoryMB |-> instance.memory_mb,
             deviceChange |-> vif_spec_list,
             extraConfig |-> <<OptionValue(<<"nvp.vm-uuid">>, instance.uuid)>>
                             \o IfaceOptions(after, 1, 0)]
    IN  [ret |-> IF os_type = "vmkernel5Guest"
                 THEN SetAttr(config_spec, "nestedHVEnabled", "True")
                 ELSE config_spec,
         vif_infos |-> after]

----------------------------------------------------------------------------
\* Datastore path codec: a string is the sequence of its characters

\* "[%s] %s" % (datastore_name, path)
build_datastore_path(datastore_name, path) ==
    <<"[">> \o datastore_name \o <<"]", " ">> \o path

\* str.split(sep, 1): the string itself when it holds no sep, else the part
\* before the first sep and the part after it.
Split1(str, sep) ==
    IF \A i \in 1..Len(str) : str[i] # sep THEN <<str>>
    ELSE LET i == CHOOSE k \in 1..Len(str) :
                     /\ str[k] = sep
                     /\ \A j \in 1..(k - 1) : str[j] # sep
         IN  <<SubSeq(str, 1, i - 1), SubSeq(str, i + 1, Len(str))>>

Tuple(items) == [kind |-> "tuple", items |-> items]

\* The split that returns the path as it stands after the bracket.
split_datastore_path_unstripped(datastore_path) ==
    LET first == Split1(datastore_path, "[")
    IN  IF Len(first) < 2 THEN Raise("IndexError", "split('[', 1)[1]")
        ELSE LET spl == Split1(first[2], "]")
             IN  IF Len(spl) = 1 THEN Tuple(<<spl[1], << >> >>)
                 ELSE Tuple(<<spl[1], spl[2]>>)

split_datastore_path(datastore_path) ==
    LET first == Split1(datastore_path, "[")
    IN  IF Len(first) < 2 THEN Raise("IndexError", "split('[', 1)[1]")
        ELSE LET spl == Split1(first[2], "]")
             IN  IF Len(spl) = 1 THEN Tuple(<<spl[1], Strip(<< >>)>>)
                 ELSE Tuple(<<spl[1], Strip(spl[2])>>)

----------------------------------------------------------------------------
\* get_stats_from_cluster

\* vim_util.get_dynamic_properties(mor, type, names): the properties the
\* remote side holds for the object, as a dict (empty when it holds none).
get_dynamic_properties(mor) ==
    LET held == inventory[mor.type]
    IN  IF \E i \in 1..Len(held) : held[i].obj = mor
        THEN LET i == CHOOSE k \in 1..Len(held) : held[k].obj = mor
             IN  held[i].propSet
        ELSE << >>

\* prop_dict.get(name)
Get(prop_dict, name) ==
    IF HasKey(prop_dict, name) THEN DictGet(prop_dict, name) ELSE None

\* vim_util.get_dynamic_property(mor, type, name)
get_dynamic_property(mor, name) == Get(get_dynamic_properties(mor), name)

\* cpu_info = {'vcpus': 0, 'cores': 0, 'vendor': [], 'model': []}
NoCpuInfo ==
    [kind |-> "dict", vcpus |-> 0, cores |-> 0, vendor |-> << >>,
     model |-> << >>]

\* mem_info = {'total': 0, 'free': 0}
NoMemInfo == [kind |-> "dict", total |-> 0, free |-> 0]

\* for obj in result.objects, from entry i on: obj.propSet[0] raises
\* IndexError for an entry whose property set is empty.
RECURSIVE CpuInfo(_, _, _)
CpuInfo(objects, i, cpu_info) ==
    IF i > Len(objects) THEN cpu_info
    ELSE IF objects[i].propSet = << >>
    THEN Raise("IndexError", "propSet[0]")
    ELSE LET hardware_summary == objects[i].propSet[1].val
         IN  CpuInfo(objects, i + 1,
                 [kind   |-> "dict",
                  vcpus  |-> cpu_info.vcpus + hardware_summary.numCpuThreads,
                  cores  |-> cpu_info.cores + hardware_summary.numCpuCores,
                  vendor |-> Append(cpu_info.vendor, hardware_summary.vendor),
                  model  |-> Append(cpu_info.model,
                                    hardware_summary.cpuModel)])

\* The conversion that rounds a byte count up to whole megabytes.
MemInfoCeiling(res_usage) ==
    IF res_usage = None THEN NoMemInfo
    ELSE LET total    == (res_usage.maxUsage + 1024 * 1024 - 1)
                            \div (1024 * 1024)
             consumed == (res_usage.overallUsage + 1024 * 1024 - 1)
                            \div (1024 * 1024)
         IN  [kind |-> "dict", total |-> total, free |-> total - consumed]

\* if res_usage: total = int(maxUsage / (1024 * 1024)); consumed likewise;
\* free = total - consumed.  The operands are integers, so / is the floor
\* division of Python 2.
MemInfo(res_usage) ==
    IF res_usage = None THEN NoMemInfo
    ELSE LET total    == res_usage.maxUsage \div (1024 * 1024)
             consumed == res_usage.overallUsage \div (1024 * 1024)
         IN  [kind |-> "dict", total |-> total, free |-> total - consumed]

\* stats = {'cpu': cpu_info, 'mem': mem_info}
Stats(cpu_info, mem_info) ==
    [kind |-> "dict", cpu |-> cpu_info, mem |-> mem_info]

\* The body of get_stats_from_cluster, the k-th remote call succeeding when
\* ok[k]; q is the number of the query the host read would start.  It gives
\* the calls made, the outcome, and the host result when one was read.
StatsFromCluster(cluster, ok, q) ==
    LET read_props == Call("get_dynamic_properties", cluster, ok[1])
        prop_dict  == get_dynamic_properties(cluster)
        host_ret   == Get(prop_dict, "host")
        read_hosts == Call("get_properties_for_a_collection_of_objects",
                           "HostSystem", ok[2])
        result     == get_objects(q, "HostSystem")
        cpu_info   == IF host_ret = None THEN NoCpuInfo
                      ELSE CpuInfo(result.objects, 1, NoCpuInfo)
        host_calls == IF host_ret = None THEN << >> ELSE <<read_hosts>>
        res_mor    == Get(prop_dict, "resourcePool")
        read_usage == Call("get_dynamic_property",
                           [obj |-> res_mor,
                            attribute |-> "summary.runtime.memory"], ok[3])
        res_usage  == get_dynamic_property(res_mor, "summary.runtime.memory")
    IN  IF ~ok[1]
        THEN [calls |-> <<read_props>>, result |-> None,
              ret |-> Raise("TransportFailure", "get_dynamic_properties")]
        ELSE IF prop_dict = << >>
        THEN [calls |-> <<read_props>>, result |-> None,
              ret |-> Return(Stats(NoCpuInfo, NoMemInfo))]
        ELSE IF host_ret # None /\ ~ok[2]
        THEN [calls |-> <<read_props, read_hosts>>, result |-> None,
              ret |-> Raise("TransportFailure",
                            "get_properties_for_a_collection_of_objects")]
        ELSE IF IsRaise(cpu_info)
        THEN [calls |-> <<read_props>> \o host_calls,
              result |-> result, ret |-> cpu_info]
        ELSE IF res_mor = None
        THEN [calls |-> <<read_props>> \o host_calls,
              result |-> IF host_ret = None THEN None ELSE result,
              ret |-> Return(Stats(cpu_info, NoMemInfo))]
        ELSE IF ~ok[3]
        THEN [calls |-> <<read_props>> \o host_calls \o <<read_usage>>,
              result |-> IF host_ret = None THEN None ELSE result,
              ret |-> Raise("TransportFailure", "get_dynamic_property")]
        ELSE [calls |-> <<read_props>> \o host_calls \o <<read_usage>>,
              result |-> IF host_ret = None THEN None ELSE result,
              ret |-> Return(Stats(cpu_info, MemInfo(res_usage)))]

----------------------------------------------------------------------------
\* Inventories and requests

Types == {"HostSystem", "VirtualMachine", "Datastore",
          "ClusterComputeResource", "ResourcePool"}

\* Two results for the same host identity (told apart by their property)
\* and one host whose result carries no property.
HostEntries ==
    { ObjectContent(MOR("HostSystem", "host-1"), <<Prop("name", "esx1")>>),
      ObjectContent(MOR("HostSystem", "host-1"), <<Prop("name", "esx1b")>>),
      ObjectContent(MOR("HostSystem", "host-2"), << >>) }

\* Two VMs of the same name, a third VM, and a VM whose result carries no
\* property (find_entity_mor guards against such results with hasattr).
VMEntries ==
    { ObjectContent(MOR("VirtualMachine", "vm-1"), <<Prop("name", "a")>>),
      ObjectContent(MOR("VirtualMachine", "vm-2"), <<Prop("name", "a")>>),
      ObjectContent(MOR("VirtualMachine", "vm-3"), <<Prop("name", "b")>>),
      ObjectContent(MOR("VirtualMachine", "vm-4"), << >>) }

Chars(str) ==
    CASE str = "ds1"  -> <<"d", "s", "1">>
      [] str = "ds2"  -> <<"d", "s", "2">>
      [] str = "ds21" -> <<"d", "s", "2", "1">>
      [] str = "A"    -> <<"A">>
      [] str = " A "  -> <<" ", "A", " ">>
      [] str = "B"    -> <<"B">>
      [] str = "C"    -> <<"C">>

DatastoreProps(type, name, capacity, freeSpace, accessible) ==
    << Prop("summary.type", type), Prop("summary.name", Chars(name)),
       Prop("summary.capacity", capacity), Prop("summary.freeSpace", freeSpace),
       Prop("summary.accessible", accessible) >>

\* Two datastores that qualify with or without the pattern "ds2", one that
\* qualifies only without it, one inaccessible, one of an unsupported type
\* and one whose result carries no property.
DatastoreEntries ==
    { ObjectContent(MOR("Datastore", "datastore-1"),
                    DatastoreProps("VMFS", "ds2", 100, 40, TRUE)),
      ObjectContent(MOR("Datastore", "datastore-2"),
                    DatastoreProps("NFS", "ds21", 200, 90, TRUE)),
      ObjectContent(MOR("Datastore", "datastore-3"),
                    DatastoreProps("VMFS", "ds1", 300, 10, TRUE)),
      ObjectContent(MOR("Datastore", "datastore-4"),
                    DatastoreProps("NFS", "ds2", 400, 20, FALSE)),
      ObjectContent(MOR("Datastore", "datastore-5"),
                    DatastoreProps("vfat", "ds2", 500, 30, TRUE)),
      ObjectContent(MOR("Datastore", "datastore-6"), << >>) }

\* The clusters and hosts a datastore lookup is scoped to; domain-7 and
\* host-7 have no datastore property.
NoDatastoreProperty == {"domain-7", "host-7"}

DatastoreScopes ==
    { [cluster |-> None, host |-> None],
      [cluster |-> MOR("ClusterComputeResource", "domain-1"), host |-> None],
      [cluster |-> MOR("ClusterComputeResource", "domain-7"), host |-> None],
      [cluster |-> None, host |-> MOR("HostSystem", "host-1")],
      [cluster |-> None, host |-> MOR("HostSystem", "host-7")] }

DatastoreRequests ==
    { [fn |-> "get_datastore_ref_and_name", cluster |-> sc.cluster,
       host |-> sc.host, datastore_regex |-> rx] :
        sc \in DatastoreScopes,
        rx \in {None, [kind |-> "regex", pattern |-> Chars("ds2")]} }

ClusterEntries ==
    { ObjectContent(MOR("ClusterComputeResource", "domain-1"),
                    <<Prop("name", Chars("A"))>>),
      ObjectContent(MOR("ClusterComputeResource", "domain-2"),
                    <<Prop("name", Chars("B"))>>) }

\* A pool named like a cluster, a pool of another name and a pool whose
\* result carries no property.
ResourcePoolEntries ==
    { ObjectContent(MOR("ResourcePool", "resgroup-1"),
                    <<Prop("name", Chars("A"))>>),
      ObjectContent(MOR("ResourcePool", "resgroup-2"),
                    <<Prop("name", Chars("C"))>>),
      ObjectContent(MOR("ResourcePool", "resgroup-3"), << >>) }

PathNames == {Chars(" A "), Chars("C")}

ClusterRequests ==
    { [fn |-> "get_all_cluster_refs_by_name", path_list |-> pl] :
        pl \in SeqsUpTo(PathNames, MaxPaths) \ {<< >>} }

EmptyInventory == [t \in Types |-> << >>]

HostRequests ==
    { [fn |-> "get_host_ref_from_id", host_id |-> h] :
        h \in {"host-1", "host-2", "host-9"} }

VMNameRequests ==
    { [fn |-> "get_vm_ref_from_name", vm_name |-> n] : n \in {"a", "b", "n"} }

VMRequests ==
    { [fn |-> "get_vm_ref", instance |-> [uuid |-> u, name |-> n]] :
        u \in {"a", "u"}, n \in {"b", "n"} }

\* get_host_ref_for_vm(session, instance, props)
HostForVMRequests ==
    { [fn |-> "get_host_ref_for_vm", instance |-> [uuid |-> u, name |-> "b"],
       props |-> <<"name">>] : u \in {"a", "u"} }

\* The VMs of a host-for-VM lookup.
HostedVMEntries ==
    { ObjectContent(MOR("VirtualMachine", "vm-1"), <<Prop("name", "a")>>),
      ObjectContent(MOR("VirtualMachine", "vm-3"), <<Prop("name", "b")>>) }

\* What the remote side may answer when asked for 'runtime.host' of a VM:
\* no entry, an entry with an empty property set, an entry with another
\* property only, and entries that carry the property.
PropertySets(ref) ==
    LET bare    == ObjectContent(ref, << >>)
        named   == ObjectContent(ref, <<Prop("name", "a")>>)
        hosted  == ObjectContent(ref,
                     <<Prop("runtime.host", MOR("HostSystem", "host-1"))>>)
        hosted2 == ObjectContent(ref,
                     <<Prop("name", "a"),
                       Prop("runtime.host", MOR("HostSystem", "host-2"))>>)
    IN  { RetrieveResult(objs, None) :
            objs \in { << >>, <<bare>>, <<named>>, <<hosted>>, <<hosted2>>,
                       <<named, hosted>> } }

\* Interface descriptors: by model, network reference and port identifier.
VifInfo(vif_model, network_ref, mac_address, iface_id) ==
    [kind |-> "dict", vif_model |-> vif_model, network_ref |-> network_ref,
     network_name |-> "br100", mac_address |-> mac_address,
     iface_id |-> iface_id]

VifInfos ==
    { VifInfo("e1000", None, "mac-1", None),
      VifInfo("VirtualVmxnet3",
              [kind |-> "dict", type |-> "OpaqueNetwork",
               network_id |-> "net-1", network_type |-> "nsx"],
              "mac-2", Some("port-1")),
      VifInfo("VirtualE1000",
              [kind |-> "dict", type |-> "DistributedVirtualPortgroup",
               dvsw |-> "dvs-1", dvpg |-> "pg-1"],
              "mac-3", Some("port-2")),
      VifInfo("VirtualPCNet32", [kind |-> "dict", type |-> "Network"],
              "mac-4", Some("")) }

VMCreateRequests ==
    { [fn |-> "get_vm_create_spec",
       instance |-> [uuid |-> "uuid-1", vcpus |-> 2, memory_mb |-> 512],
       data_store_name |-> "ds1", vif_infos |-> v, os_type |-> o] :
        v \in SeqsUpTo(VifInfos, MaxVifs),
        o \in {"otherGuest", "vmkernel5Guest"} }

VmdkAttachRequests ==
    { [fn |-> "get_vmdk_attach_config_spec", adapter_type |-> a,
       disk_type |-> d, file_path |-> f, disk_size |-> Some(1024),
       linked_clone |-> l, controller_key |-> c, unit_number |-> None,
       device_name |-> n] :
        a \in {"ide", "lsiLogic", "busLogic", "lsiLogicsas"},
        d \in {"thin", "eagerZeroedThick", "preallocated", "rdm", "rdmp",
               "sparse"},
        f \in {None, Some("[ds1] vm/vm.vmdk")},
        l \in BOOLEAN,
        c \in {None, Some(1000)},
        n \in {None, Some("naa.1")} }

CdromAttachRequests ==
    { [fn |-> "get_cdrom_attach_config_spec",
       datastore |-> MOR("Datastore", "datastore-1"),
       file_path |-> "[ds1] vm/cd.iso", cdrom_unit_number |-> u] :
        u \in {0, 1} }

DummyVMRequests ==
    { [fn |-> "get_dummy_vm_create_spec", name |-> "dummy",
       data_store_name |-> "ds1"] }

\* The characters of datastore names and paths.
PathChars == {"a", " ", "[", "]"}

\* split_datastore_path(build_datastore_path(datastore_name, path))
DatastorePathRequests ==
    { [fn |-> "build_datastore_path", datastore_name |-> n, path |-> q] :
        n \in SeqsUpTo(PathChars, MaxNameLen),
        q \in SeqsUpTo(PathChars, MaxPathLen) }

\* summary.hardware of a host
HardwareSummary(numCpuThreads, numCpuCores, vendor, cpuModel) ==
    [kind |-> "HostHardwareSummary", numCpuThreads |-> numCpuThreads,
     numCpuCores |-> numCpuCores, vendor |-> vendor, cpuModel |-> cpuModel]

\* Two hosts that answer with their hardware summary and one whose result
\* carries no property.
StatsHostEntries ==
    { ObjectContent(MOR("HostSystem", "host-1"),
          <<Prop("summary.hardware",
                 HardwareSummary(8, 4, "GenuineIntel", "Xeon"))>>),
      ObjectContent(MOR("HostSystem", "host-2"),
          <<Prop("summary.hardware",
                 HardwareSummary(32, 16, "AuthenticAMD", "Opteron"))>>),
      ObjectContent(MOR("HostSystem", "host-3"), << >>) }

\* summary.runtime.memory of a resource pool, in bytes: none, or figures on
\* and off the megabyte boundaries.
MemoryUsages ==
    {None} \cup
    { [kind |-> "ResourcePoolResourceUsage", maxUsage |-> m,
       overallUsage |-> o] :
        m \in {0, 1048575, 1048576, 3145733},
        o \in {0, 1048577, 3145727} }

\* The remote side of a cluster: its hosts (the host property is held only
\* by a cluster that has hosts) and, when it has one, its resource pool with
\* the memory usage the pool reports.
StatsInventory(hosts, has_pool, usage) ==
    LET cluster   == MOR("ClusterComputeResource", "domain-1")
        pool      == MOR("ResourcePool", "resgroup-1")
        host_prop == IF hosts = << >> THEN << >>
                     ELSE <<Prop("host",
                                 [kind |-> "ArrayOfManagedObjectReference",
                                  ManagedObjectReference |->
                                     [i \in 1..Len(hosts) |-> hosts[i].obj]])>>
        pool_prop == IF has_pool THEN <<Prop("resourcePool", pool)>>
                     ELSE << >>
        usage_prop == IF usage = None THEN << >>
                      ELSE <<Prop("summary.runtime.memory", usage)>>
    IN  [EmptyInventory EXCEPT
            !["HostSystem"] = hosts,
            !["ClusterComputeResource"] =
                <<ObjectContent(cluster, host_prop \o pool_prop)>>,
            !["ResourcePool"] =
                IF has_pool THEN <<ObjectContent(pool, usage_prop)>>
                ELSE << >>]

StatsInventories ==
    { StatsInventory(h, TRUE, u) :
        h \in SeqsUpTo(StatsHostEntries, MaxHostObjects), u \in MemoryUsages }
    \cup { StatsInventory(h, FALSE, None) :
             h \in SeqsUpTo(StatsHostEntries, MaxHostObjects) }

StatsRequests ==
    { [fn |-> "get_stats_from_cluster",
       cluster |-> MOR("ClusterComputeResource", "domain-1")] }

BuilderRequests ==
    VMCreateRequests \cup VmdkAttachRequests \cup CdromAttachRequests
       \cup DummyVMRequests

Requests ==
    HostRequests \cup VMNameRequests \cup VMRequests \cup DatastoreRequests
       \cup ClusterRequests \cup HostForVMRequests \cup BuilderRequests
       \cup DatastorePathRequests \cup StatsRequests

InventoriesFor(r) ==
    IF r.fn = "get_host_ref_from_id"
    THEN { [EmptyInventory EXCEPT !["HostSystem"] = s] :
             s \in SeqsUpTo(HostEntries, MaxObjects) }
    ELSE IF r.fn \in {"get_vm_ref_from_name", "get_vm_ref"}
    THEN { [EmptyInventory EXCEPT !["VirtualMachine"] = s] :
             s \in SeqsUpTo(VMEntries, MaxObjects) }
    ELSE IF r.fn = "get_datastore_ref_and_name"
    THEN { [EmptyInventory EXCEPT !["Datastore"] = s] :
             s \in SeqsUpTo(DatastoreEntries, MaxObjects) }
    ELSE IF r.fn = "get_host_ref_for_vm"
    THEN { [EmptyInventory EXCEPT !["VirtualMachine"] = v,
                                  !["HostSystem"] = h] :
             v \in SeqsUpTo(HostedVMEntries, MaxHostObjects),
             h \in SeqsUpTo(HostEntries, MaxHostObjects) }
    ELSE IF r.fn = "get_all_cluster_refs_by_name"
    THEN { [EmptyInventory EXCEPT !["ClusterComputeResource"] = c,
                                  !["ResourcePool"] = p] :
             c \in SeqsUpTo(ClusterEntries, MaxClusterObjects),
             p \in SeqsUpTo(ResourcePoolEntries, MaxClusterObjects) }
    ELSE IF r.fn = "get_stats_from_cluster" THEN StatsInventories
    ELSE {EmptyInventory}

\* The page sizes of the remote side; a request that makes no remote call
\* has no use for them.
PageSizesFor(r) ==
    IF r.fn \in {"get_vm_create_spec", "get_vmdk_attach_config_spec",
                 "get_cdrom_attach_config_spec", "get_dummy_vm_create_spec",
                 "build_datastore_path"}
    THEN {1}
    ELSE 1..MaxPageSize

\* The state at the call of the function req names.
Called ==
    /\ pageSize \in PageSizesFor(req)
    /\ inventory \in InventoriesFor(req)
    /\ pc = "entry"
    /\ stage = "-"
    /\ ffargs = None
    /\ results = None
    /\ ffret = None
    /\ ret = Running
    /\ calls = << >>
    /\ queries = << >>
    /\ open = {}
    /\ cls = None
    /\ res = None
    /\ vm_ref = None
    /\ property_set = None
    /\ host_id = None

Init == req \in Requests /\ Called

----------------------------------------------------------------------------
\* Remote round-trips

TokenSet(rs) == IF rs # None /\ rs.token # None THEN {rs.token} ELSE {}

\* session._call_method(vim_util, "get_objects", type, ...) followed by
\* the call of _get_object_from_results(session, <page>, value, func).
StartFindFirst(type, value, func) ==
    \E ok \in BOOLEAN :
       /\ calls' = Append(calls, Call("get_objects", type, ok))
       /\ IF ok
          THEN LET page == get_objects(Len(queries) + 1, type)
               IN  /\ queries' = Append(queries, type)
                   /\ results' = page
                   /\ open' = open \cup TokenSet(page)
                   /\ ffargs' = [value |-> value, func |-> func]
                   /\ pc' = "ff"
                   /\ ret' = ret
          ELSE /\ ret' = Raise("TransportFailure", "get_objects")
               /\ pc' = "done"
               /\ UNCHANGED <<queries, results, open, ffargs>>

----------------------------------------------------------------------------
\* _get_object_from_results

FFRaise ==
    /\ pc = "ff"
    /\ LET s == FFStep(results, ffargs.value, ffargs.func)
       IN  /\ s.act = "raise"
           /\ ret' = s.val
           /\ pc' = "done"
    /\ UNCHANGED <<inventory, pageSize, req, vm_ref, property_set,
                   host_id, cls, res, stage, ffargs, results,
                   ffret, calls, queries, open>>

FFCancelReturn ==
    /\ pc = "ff"
    /\ LET s == FFStep(results, ffargs.value, ffargs.func)
       IN  /\ s.act = "cancel_return"
           /\ \E ok \in BOOLEAN :
                /\ calls' = Append(calls, Call("cancel_retrieve", s.token, ok))
                /\ open' = open \ {s.token}
                /\ IF ok
                   THEN /\ ffret' = s.val
                        /\ pc' = "ff_ret"
                        /\ ret' = ret
                   ELSE /\ ret' = Raise("TransportFailure", "cancel_retrieve")
                        /\ pc' = "done"
                        /\ ffret' = ffret
    /\ UNCHANGED <<inventory, pageSize, req, vm_ref, property_set,
                   host_id, cls, res, stage, ffargs, results,
                   queries>>

FFReturn ==
    /\ pc = "ff"
    /\ LET s == FFStep(results, ffargs.value, ffargs.func)
       IN  /\ s.act = "return"
           /\ ffret' = s.val
           /\ pc' = "ff_ret"
    /\ UNCHANGED <<inventory, pageSize, req, vm_ref, property_set,
                   host_id, cls, res, stage, ffargs, results,
                   ret,
                   calls, queries, open>>

FFContinue ==
    /\ pc = "ff"
    /\ LET s == FFStep(results, ffargs.value, ffargs.func)
       IN  /\ s.act = "continue"
           /\ \E ok \in BOOLEAN :
                /\ calls' = Append(calls,
                                   Call("continue_to_get_objects", s.token, ok))
                /\ IF ok
                   THEN LET page == continue_to_get_objects(s.token)
                        IN  /\ results' = page
                            /\ open' = (open \ {s.token}) \cup TokenSet(page)
                            /\ pc' = "ff"
                            /\ ret' = ret
                   ELSE /\ ret' = Raise("TransportFailure",
                                        "continue_to_get_objects")
                        /\ pc' = "done"
                        /\ open' = open \ {s.token}
                        /\ results' = results
    /\ UNCHANGED <<inventory, pageSize, req, vm_ref, property_set,
                   host_id, cls, res, stage, ffargs, ffret,
                   queries>>

----------------------------------------------------------------------------
\* Callers of _get_object_from_results

get_host_ref_from_id ==
    /\ pc = "entry"
    /\ req.fn = "get_host_ref_from_id"
    /\ StartFindFirst("HostSystem", req.host_id, "_get_reference_for_value")
    /\ UNCHANGED <<inventory, pageSize, req, vm_ref, property_set,
                   host_id, cls, res, stage, ffret>>

get_vm_ref_from_name ==
    /\ pc = "entry"
    /\ req.fn = "get_vm_ref_from_name"
    /\ StartFindFirst("VirtualMachine", req.vm_name, "_get_object_for_value")
    /\ UNCHANGED <<inventory, pageSize, req, vm_ref, property_set,
                   host_id, cls, res, stage, ffret>>

\* get_host_ref_from_id, get_vm_ref_from_name: return what find-first returns.
ReturnFound ==
    /\ pc = "ff_ret"
    /\ req.fn \in {"get_host_ref_from_id", "get_vm_ref_from_name"}
    /\ ret' = Return(ffret)
    /\ pc' = "done"
    /\ UNCHANGED <<inventory, pageSize, req, vm_ref, property_set,
                   host_id, cls, res, stage, ffargs, results,
                   ffret, calls, queries, open>>

\* The requests that begin with get_vm_ref(session, instance).
VMRefFns == {"get_vm_ref", "get_host_ref_for_vm"}

\* get_vm_ref returns to its caller: the caller of the request, or
\* get_host_ref_for_vm, which holds the reference as vm_ref.
ReturnVMRef(ref) ==
    IF req.fn = "get_vm_ref"
    THEN /\ ret' = Return(ref)
         /\ pc' = "done"
         /\ vm_ref' = vm_ref
    ELSE /\ ret' = ret
         /\ pc' = "vm_ref"
         /\ vm_ref' = ref

\* get_vm_ref: vm_ref = get_vm_ref_from_uuid(session, instance['uuid'])
get_vm_ref ==
    /\ pc = "entry"
    /\ req.fn \in VMRefFns
    /\ stage' = "uuid"
    /\ StartFindFirst("VirtualMachine", req.instance.uuid,
                      "_get_object_for_value")
    /\ UNCHANGED <<inventory, pageSize, req, vm_ref, property_set,
                   host_id, cls, res, ffret>>

\* get_vm_ref: the uuid traversal found a reference.
get_vm_ref_uuid_hit ==
    /\ pc = "ff_ret"
    /\ req.fn \in VMRefFns
    /\ stage = "uuid"
    /\ ffret # None
    /\ ReturnVMRef(ffret)
    /\ UNCHANGED <<inventory, pageSize, req, property_set,
                   host_id, cls, res, stage, ffargs, results,
                   ffret, calls, queries, open>>

\* get_vm_ref: if not vm_ref: vm_ref = get_vm_ref_from_name(...)
get_vm_ref_uuid_miss ==
    /\ pc = "ff_ret"
    /\ req.fn \in VMRefFns
    /\ stage = "uuid"
    /\ ffret = None
    /\ stage' = "name"
    /\ StartFindFirst("VirtualMachine", req.instance.name,
                      "_get_object_for_value")
    /\ UNCHANGED <<inventory, pageSize, req, vm_ref, property_set,
                   host_id, cls, res, ffret>>

\* get_vm_ref that returns whatever the name traversal returned.
get_vm_ref_name_ret_unchecked ==
    /\ pc = "ff_ret"
    /\ req.fn \in VMRefFns
    /\ stage = "name"
    /\ ReturnVMRef(ffret)
    /\ UNCHANGED <<inventory, pageSize, req, property_set,
                   host_id, cls, res, stage, ffargs, results,
                   ffret, calls, queries, open>>

\* get_vm_ref: if vm_ref is None: raise InstanceNotFound; return vm_ref
get_vm_ref_name_ret ==
    /\ pc = "ff_ret"
    /\ req.fn \in VMRefFns
    /\ stage = "name"
    /\ IF ffret = None
       THEN /\ ret' = Raise("InstanceNotFound", req.instance.uuid)
            /\ pc' = "done"
            /\ vm_ref' = vm_ref
       ELSE ReturnVMRef(ffret)
    /\ UNCHANGED <<inventory, pageSize, req, property_set,
                   host_id, cls, res, stage, ffargs, results,
                   ffret, calls, queries, open>>

----------------------------------------------------------------------------
\* get_datastore_ref_and_name

\* vim_util.get_dynamic_property(scope, type, "datastore")
DatastoreProperty(scope) ==
    IF scope.value \in NoDatastoreProperty THEN None
    ELSE [kind |-> "ArrayOfManagedObjectReference",
          ManagedObjectReference |->
             [i \in 1..Len(inventory["Datastore"]) |->
                 inventory["Datastore"][i].obj]]

\* First page of a paged remote query for the datastores.
StartDatastoreQuery(method, ok) ==
    /\ IF ok
       THEN LET page == get_objects(Len(queries) + 1, "Datastore")
            IN  /\ queries' = Append(queries, "Datastore")
                /\ results' = page
                /\ open' = open \cup TokenSet(page)
                /\ pc' = "ds"
                /\ ret' = ret
       ELSE /\ ret' = Raise("TransportFailure", method)
            /\ pc' = "done"
            /\ UNCHANGED <<queries, results, open>>

\* cluster is None and host is None: every datastore, by get_objects.
get_datastore_ref_and_name_global ==
    /\ pc = "entry"
    /\ req.fn = "get_datastore_ref_and_name"
    /\ req.cluster = None /\ req.host = None
    /\ \E ok \in BOOLEAN :
         /\ calls' = Append(calls, Call("get_objects", "Datastore", ok))
         /\ StartDatastoreQuery("get_objects", ok)
    /\ UNCHANGED <<inventory, pageSize, req, vm_ref, property_set,
                   host_id, cls, res, stage, ffargs, ffret>>

\* Scoped to a cluster or (with no cluster) to a host: read its datastore
\* property, raise DatastoreNotFound when it has none, else query the
\* properties of the datastores it names.
get_datastore_ref_and_name_scoped ==
    /\ pc = "entry"
    /\ req.fn = "get_datastore_ref_and_name"
    /\ ~(req.cluster = None /\ req.host = None)
    /\ LET scope == IF req.cluster # None THEN req.cluster ELSE req.host
           datastore_ret == DatastoreProperty(scope)
       IN  \E ok1 \in BOOLEAN :
              IF ~ok1
              THEN /\ calls' = Append(calls,
                                      Call("get_dynamic_property", scope, FALSE))
                   /\ ret' = Raise("TransportFailure", "get_dynamic_property")
                   /\ pc' = "done"
                   /\ UNCHANGED <<queries, results, open>>
              ELSE IF datastore_ret = None
              THEN /\ calls' = Append(calls,
                                      Call("get_dynamic_property", scope, TRUE))
                   /\ ret' = Raise("DatastoreNotFound", DefaultMessage)
                   /\ pc' = "done"
                   /\ UNCHANGED <<queries, results, open>>
              ELSE \E ok2 \in BOOLEAN :
                   /\ calls' = calls \o
                        << Call("get_dynamic_property", scope, TRUE),
                           Call("get_properties_for_a_collection_of_objects",
                                "Datastore", ok2) >>
                   /\ StartDatastoreQuery(
                          "get_properties_for_a_collection_of_objects", ok2)
    /\ UNCHANGED <<inventory, pageSize, req, vm_ref, property_set,
                   host_id, cls, res, stage, ffargs, ffret>>

\* The page cannot be examined: the error leaves the function.
DSRaise ==
    /\ pc = "ds"
    /\ LET s == DSStep(results, req.datastore_regex)
       IN  /\ s.act = "raise"
           /\ ret' = s.val
           /\ pc' = "done"
    /\ UNCHANGED <<inventory, pageSize, req, vm_ref, property_set,
                   host_id, cls, res, stage, ffargs, results,
                   ffret, calls, queries, open>>

\* A datastore found on a page that carries a token: cancel, then return.
DSCancelReturn ==
    /\ pc = "ds"
    /\ LET s == DSStep(results, req.datastore_regex)
       IN  /\ s.act = "cancel_return"
           /\ \E ok \in BOOLEAN :
                /\ calls' = Append(calls, Call("cancel_retrieve", s.token, ok))
                /\ open' = open \ {s.token}
                /\ ret' = IF ok THEN Return(s.val)
                          ELSE Raise("TransportFailure", "cancel_retrieve")
                /\ pc' = "done"
    /\ UNCHANGED <<inventory, pageSize, req, vm_ref, property_set,
                   host_id, cls, res, stage, ffargs, results,
                   ffret, queries>>

\* A datastore found on a page without token, or none found on the last
\* page, or no page at all.
DSReturn ==
    /\ pc = "ds"
    /\ LET s == DSStep(results, req.datastore_regex)
       IN  /\ s.act \in {"return", "notfound", "absent"}
           /\ ret' = IF s.act = "return" THEN Return(s.val) ELSE s.val
           /\ pc' = "done"
    /\ UNCHANGED <<inventory, pageSize, req, vm_ref, property_set,
                   host_id, cls, res, stage, ffargs, results,
                   ffret, calls, queries, open>>

\* No datastore on the page held, which carries a token: the next page.
DSContinue ==
    /\ pc = "ds"
    /\ LET s == DSStep(results, req.datastore_regex)
       IN  /\ s.act = "continue"
           /\ \E ok \in BOOLEAN :
                /\ calls' = Append(calls,
                                   Call("continue_to_get_objects", s.token, ok))
                /\ IF ok
                   THEN LET page == continue_to_get_objects(s.token)
                        IN  /\ results' = page
                            /\ open' = (open \ {s.token}) \cup TokenSet(page)
                            /\ pc' = "ds"
                            /\ ret' = ret
                   ELSE /\ ret' = Raise("TransportFailure",
                                        "continue_to_get_objects")
                        /\ pc' = "done"
                        /\ open' = open \ {s.token}
                        /\ results' = results
    /\ UNCHANGED <<inventory, pageSize, req, vm_ref, property_set,
                   host_id, cls, res, stage, ffargs, ffret,
                   queries>>

----------------------------------------------------------------------------
\* get_all_cluster_refs_by_name

\* The enumeration that keeps the first page's objects when the cancel call
\* fails.
EnumerateAllKeepsPage(type, okGet, okCancel) ==
    LET page  == get_objects(Len(queries) + 1, type)
        token == _get_token(page)
    IN  IF ~okGet
        THEN [calls |-> <<Call("get_objects", type, FALSE)>>, val |-> None]
        ELSE IF token # None
        THEN [calls |-> << Call("get_objects", type, TRUE),
                           Call("cancel_retrieve", token, okCancel) >>,
              val |-> List(page.objects)]
        ELSE [calls |-> <<Call("get_objects", type, TRUE)>>,
              val |-> IF page = None THEN None ELSE List(page.objects)]

\* get_all_cluster_mors / get_all_res_pool_mors: get_objects, then
\* _cancel_retrieve_if_necessary, then results.objects; an exception of any
\* of the three is logged and the function returns nothing.  okGet and
\* okCancel say whether the two round-trips succeed.
EnumerateAll(type, okGet, okCancel) ==
    LET page  == get_objects(Len(queries) + 1, type)
        token == _get_token(page)
    IN  IF ~okGet
        THEN [calls |-> <<Call("get_objects", type, FALSE)>>, val |-> None]
        ELSE IF token # None
        THEN [calls |-> << Call("get_objects", type, TRUE),
                           Call("cancel_retrieve", token, okCancel) >>,
              val |-> IF okCancel THEN List(page.objects) ELSE None]
        ELSE [calls |-> <<Call("get_objects", type, TRUE)>>,
              val |-> IF page = None THEN None ELSE List(page.objects)]

\* cls = get_all_cluster_mors(session); if not cls: return
get_all_cluster_mors ==
    /\ pc = "entry"
    /\ req.fn = "get_all_cluster_refs_by_name"
    /\ \E okGet \in BOOLEAN, okCancel \in BOOLEAN :
         LET e == EnumerateAll("ClusterComputeResource", okGet, okCancel)
         IN  /\ calls' = calls \o e.calls
             /\ queries' = IF okGet
                           THEN Append(queries, "ClusterComputeResource")
                           ELSE queries
             /\ cls' = e.val
             /\ IF e.val = None
                THEN pc' = "done" /\ ret' = Return(None)
                ELSE pc' = "cls" /\ ret' = ret
    /\ UNCHANGED <<inventory, pageSize, req, vm_ref, property_set,
                   host_id, res, stage, ffargs, results,
                   ffret, open>>

\* res = get_all_res_pool_mors(session); if not res: return
get_all_res_pool_mors ==
    /\ pc = "cls"
    /\ \E okGet \in BOOLEAN, okCancel \in BOOLEAN :
         LET e == EnumerateAll("ResourcePool", okGet, okCancel)
         IN  /\ calls' = calls \o e.calls
             /\ queries' = IF okGet THEN Append(queries, "ResourcePool")
                           ELSE queries
             /\ res' = e.val
             /\ IF e.val = None
                THEN pc' = "done" /\ ret' = Return(None)
                ELSE pc' = "res" /\ ret' = ret
    /\ UNCHANGED <<inventory, pageSize, req, vm_ref, property_set,
                   host_id, cls, stage, ffargs, results,
                   ffret, open>>

\* The rest of get_all_cluster_refs_by_name: strip the paths, collect the
\* matching objects and hand them to get_dict_mor, which reads one property
\* an object; the read number failAt fails (0: none does) and its error
\* leaves the function.
get_all_cluster_refs_by_name ==
    /\ pc = "res"
    /\ LET path_list == [i \in 1..Len(req.path_list) |-> Strip(req.path_list[i])]
           list_obj  == ListObj(path_list, cls.items, res.items, 1)
           read(i, ok) == Call("get_dynamic_property",
                               [obj |-> list_obj[i].obj,
                                attribute |-> DictAttribute(list_obj[i].obj)],
                               ok)
       IN  \E failAt \in 0..Len(list_obj) :
              IF failAt = 0
              THEN /\ calls' = calls \o
                                 [i \in 1..Len(list_obj) |-> read(i, TRUE)]
                   /\ ret' = Return(get_dict_mor(list_obj))
              ELSE /\ calls' = calls \o
                                 [i \in 1..failAt |-> read(i, i < failAt)]
                   /\ ret' = Raise("TransportFailure", "get_dynamic_property")
    /\ pc' = "done"
    /\ UNCHANGED <<inventory, pageSize, req, vm_ref, property_set,
                   host_id, cls, res, stage, ffargs, results,
                   ffret, queries, open>>

----------------------------------------------------------------------------
\* get_host_ref_for_vm

\* host_id = get_host_id_from_vm_ref(session, vm_ref): one property read of
\* the VM, then the host id or the error.
get_host_id_from_vm_ref ==
    /\ pc = "vm_ref"
    /\ \E ok \in BOOLEAN, ps \in PropertySets(vm_ref) :
         /\ calls' = Append(calls, Call("get_object_properties", vm_ref, ok))
         /\ IF ~ok
            THEN /\ ret' = Raise("TransportFailure", "get_object_properties")
                 /\ pc' = "done"
                 /\ UNCHANGED <<property_set, host_id>>
            ELSE LET prop == HostId(ps, vm_ref)
                 IN  /\ property_set' = ps
                     /\ IF IsRaise(prop)
                        THEN /\ ret' = prop
                             /\ pc' = "done"
                             /\ host_id' = host_id
                        ELSE /\ ret' = ret
                             /\ pc' = "host_id"
                             /\ host_id' = prop.val
    /\ UNCHANGED <<inventory, pageSize, req, vm_ref, cls, res, stage, ffargs,
                   results, ffret, queries, open>>

\* return get_host_ref_from_id(session, host_id, props)
get_host_ref_for_vm_lookup ==
    /\ pc = "host_id"
    /\ stage' = "host"
    /\ StartFindFirst("HostSystem", host_id, "_get_reference_for_value")
    /\ UNCHANGED <<inventory, pageSize, req, vm_ref, property_set,
                   host_id, cls, res, ffret>>

get_host_ref_for_vm_ret ==
    /\ pc = "ff_ret"
    /\ req.fn = "get_host_ref_for_vm"
    /\ stage = "host"
    /\ ret' = Return(ffret)
    /\ pc' = "done"
    /\ UNCHANGED <<inventory, pageSize, req, vm_ref, property_set,
                   host_id, cls, res, stage, ffargs, results,
                   ffret, calls, queries, open>>

----------------------------------------------------------------------------
\* Calls of the spec builders

call_get_vm_create_spec ==
    /\ pc = "entry"
    /\ req.fn = "get_vm_create_spec"
    /\ LET r == get_vm_create_spec(req.instance, req.data_store_name,
                                   req.vif_infos, req.os_type)
       IN  /\ ret' = Return(r.ret)
           /\ req' = [req EXCEPT !.vif_infos = r.vif_infos]
    /\ pc' = "done"
    /\ UNCHANGED <<inventory, pageSize, vm_ref, property_set, host_id, cls,
                   res, stage, ffargs, results, ffret, calls, queries, open>>

call_get_vmdk_attach_config_spec ==
    /\ pc = "entry"
    /\ req.fn = "get_vmdk_attach_config_spec"
    /\ ret' = Return(get_vmdk_attach_config_spec(
                        req.adapter_type, req.disk_type, req.file_path,
                        req.disk_size, req.linked_clone, req.controller_key,
                        req.unit_number, req.device_name))
    /\ pc' = "done"
    /\ UNCHANGED <<inventory, pageSize, req, vm_ref, property_set, host_id,
                   cls, res, stage, ffargs, results, ffret, calls, queries,
                   open>>

call_get_cdrom_attach_config_spec ==
    /\ pc = "entry"
    /\ req.fn = "get_cdrom_attach_config_spec"
    /\ ret' = Return(get_cdrom_attach_config_spec(
                        req.datastore, req.file_path, req.cdrom_unit_number))
    /\ pc' = "done"
    /\ UNCHANGED <<inventory, pageSize, req, vm_ref, property_set, host_id,
                   cls, res, stage, ffargs, results, ffret, calls, queries,
                   open>>

call_get_dummy_vm_create_spec ==
    /\ pc = "entry"
    /\ req.fn = "get_dummy_vm_create_spec"
    /\ ret' = Return(get_dummy_vm_create_spec(req.name, req.data_store_name))
    /\ pc' = "done"
    /\ UNCHANGED <<inventory, pageSize, req, vm_ref, property_set, host_id,
                   cls, res, stage, ffargs, results, ffret, calls, queries,
                   open>>

----------------------------------------------------------------------------
\* Calls of the datastore path codec

call_build_datastore_path ==
    /\ pc = "entry"
    /\ req.fn = "build_datastore_path"
    /\ ret' = Return(build_datastore_path(req.datastore_name, req.path))
    /\ pc' = "built"
    /\ UNCHANGED <<inventory, pageSize, req, vm_ref, property_set, host_id,
                   cls, res, stage, ffargs, results, ffret, calls, queries,
                   open>>

\* The path built is handed to split_datastore_path.
call_split_datastore_path ==
    /\ pc = "built"
    /\ LET r == split_datastore_path(ret.val)
       IN  ret' = IF IsRaise(r) THEN r ELSE Return(r)
    /\ pc' = "done"
    /\ UNCHANGED <<inventory, pageSize, req, vm_ref, property_set, host_id,
                   cls, res, stage, ffargs, results, ffret, calls, queries,
                   open>>

----------------------------------------------------------------------------
\* get_stats_from_cluster(session, cluster): up to three remote reads, each
\* of which may fail; the host read starts a paged query whose first page is
\* all the function looks at.
get_stats_from_cluster ==
    /\ pc = "entry"
    /\ req.fn = "get_stats_from_cluster"
    /\ \E ok \in [1..3 -> BOOLEAN] :
         LET out == StatsFromCluster(req.cluster, ok, Len(queries) + 1)
         IN  /\ calls' = calls \o out.calls
             /\ ret' = out.ret
             /\ IF out.result = None
                THEN UNCHANGED <<queries, results, open>>
                ELSE /\ queries' = Append(queries, "HostSystem")
                     /\ results' = out.result
                     /\ open' = open \cup TokenSet(out.result)
    /\ pc' = "done"
    /\ UNCHANGED <<inventory, pageSize, req, vm_ref, property_set, host_id,
                   cls, res, stage, ffargs, ffret>>

----------------------------------------------------------------------------
Next ==
    \/ get_host_ref_from_id
    \/ get_vm_ref_from_name
    \/ ReturnFound
    \/ get_vm_ref
    \/ get_vm_ref_uuid_hit
    \/ get_vm_ref_uuid_miss
    \/ get_vm_ref_name_ret
    \/ FFRaise
    \/ FFCancelReturn
    \/ FFReturn
    \/ FFContinue
    \/ get_datastore_ref_and_name_global
    \/ get_datastore_ref_and_name_scoped
    \/ DSRaise
    \/ DSCancelReturn
    \/ DSReturn
    \/ DSContinue
    \/ get_all_cluster_mors
    \/ get_all_res_pool_mors
    \/ get_all_cluster_refs_by_name
    \/ get_host_id_from_vm_ref
    \/ get_host_ref_for_vm_lookup
    \/ get_host_ref_for_vm_ret
    \/ call_get_vm_create_spec
    \/ call_get_vmdk_attach_config_spec
    \/ call_get_cdrom_attach_config_spec
    \/ call_get_dummy_vm_create_spec
    \/ call_build_datastore_path
    \/ call_split_datastore_path
    \/ get_stats_from_cluster

Spec == Init /\ [][Next]_vars

----------------------------------------------------------------------------
\* The paged scans on their own: one call of a function that runs find-first
\* or the datastore full scan.

ScanRequests ==
    HostRequests \cup VMNameRequests \cup VMRequests \cup DatastoreRequests

ScanInit == req \in ScanRequests /\ Called

ScanNext ==
    \/ get_host_ref_from_id
    \/ get_vm_ref_from_name
    \/ ReturnFound
    \/ get_vm_ref
    \/ get_vm_ref_uuid_hit
    \/ get_vm_ref_uuid_miss
    \/ get_vm_ref_name_ret
    \/ FFRaise
    \/ FFCancelReturn
    \/ FFReturn
    \/ FFContinue
    \/ get_datastore_ref_and_name_global
    \/ get_datastore_ref_and_name_scoped
    \/ DSRaise
    \/ DSCancelReturn
    \/ DSReturn
    \/ DSContinue

\* The call runs in one thread and every remote call returns (with a result
\* or with an error), so a call that has a step to take takes it.
ScanSpec == ScanInit /\ [][ScanNext]_vars /\ WF_vars(ScanNext)

----------------------------------------------------------------------------
\* Vocabulary of the properties: the traversals of a behaviour, read off
\* the inventory and the call log alone.

FindFirstFns == {"get_host_ref_from_id", "get_vm_ref_from_name", "get_vm_ref"}

\* The value and the predicate the q-th query of the request is searched with.
TraversalValue(q) ==
    IF req.fn = "get_host_ref_from_id" THEN req.host_id
    ELSE IF req.fn = "get_vm_ref_from_name" THEN req.vm_name
    ELSE IF q = 1 THEN req.instance.uuid ELSE req.instance.name

ByReference == req.fn = "get_host_ref_from_id"

Inv(q) == inventory[queries[q]]

\* The predicate holds for entry e.
Matches(e, value) ==
    IF ByReference THEN e.obj.value = value
    ELSE Len(e.propSet) > 0 /\ e.propSet[1].val = value

\* Position of the earliest matching entry in arrival order, 0 for none.
EarliestMatch(q) ==
    LET hits == {i \in 1..Len(Inv(q)) : Matches(Inv(q)[i], TraversalValue(q))}
    IN  IF hits = {} THEN 0
        ELSE CHOOSE i \in hits : \A j \in hits : i <= j

PageOf(i) == (i + pageSize - 1) \div pageSize

NumPages(q) == PageOf(Len(Inv(q)))

PageHasToken(q, p) == p * pageSize < Len(Inv(q))

IsTokenCall(c) == c.method \in {"cancel_retrieve", "continue_to_get_objects"}

\* The calls that answer with a first page.
IsPagedQuery(c) ==
    c.method \in {"get_objects", "get_properties_for_a_collection_of_objects"}

Cancels(q) ==
    SelectSeq(calls, LAMBDA c : c.method = "cancel_retrieve" /\ c.arg.query = q)

Continues(q) ==
    SelectSeq(calls, LAMBDA c : c.method = "continue_to_get_objects"
                                  /\ c.arg.query = q)

\* Traversal q has ended, and not by an error raised while a page was
\* examined or fetched.
RanToEnd(q) ==
    \/ q < Len(queries)
    \/ q = 1 /\ stage = "name"
    \/ /\ q = Len(queries)
       /\ \/ pc = "ff_ret"
          \/ pc = "done" /\ ret.kind = "return"
          \/ pc = "done" /\ ret.kind = "raise"
                /\ \/ ret.exc \in {"InstanceNotFound", "DatastoreNotFound"}
                   \/ ret.exc = "TransportFailure" /\ ret.msg = "cancel_retrieve"

----------------------------------------------------------------------------
\* C1: in find-first a cancel-paged-result call is issued exactly when the
\* predicate matches on a page that still carries a continuation token, and
\* it is issued for that page's token; a match on a token-less page, or no
\* match at all, issues no cancel call.
C1_CancelExactlyOnMatchWithToken ==
    req.fn \in FindFirstFns =>
      \A q \in 1..Len(queries) :
        LET m == EarliestMatch(q)
            expect == m > 0 /\ PageHasToken(q, PageOf(m))
        IN  /\ Len(Cancels(q)) <= 1
            /\ Len(Cancels(q)) = 1 =>
                 /\ expect
                 /\ Cancels(q)[1].arg = Token(q, PageOf(m))
            /\ RanToEnd(q) => (expect <=> Len(Cancels(q)) = 1)

\* A match on the second page, which carries a trailing token: one fetch and
\* then the cancel.
C1_Witness ==
    /\ req.fn \in FindFirstFns
    /\ pc = "ff_ret"
    /\ Len(Continues(1)) = 1
    /\ Len(Cancels(1)) = 1
    /\ Cancels(1)[1].ok

\* C2: on every exit path of a traversal no continuation token obtained
\* during it is left both un-continued and un-cancelled when control returns
\* to the caller.
C2_NoTokenLeftOpen == pc \in {"ff_ret", "done"} => open = {}

\* C3: find-first returns the earliest entry in arrival order for which the
\* predicate holds (the whole entry for match-by-reference-identity, the
\* entry's object reference for match-by-named-property), and None exactly
\* when no entry of the chain matches.
C3_ReturnsEarliestMatch ==
    (req.fn \in FindFirstFns /\ pc = "ff_ret") =>
      LET q == Len(queries)
          m == EarliestMatch(q)
      IN  /\ m = 0 <=> ffret = None
          /\ m > 0 => ffret = IF ByReference THEN Inv(q)[m] ELSE Inv(q)[m].obj

\* Two entries match, on different pages, and the one of the first page is
\* not the first entry of the inventory.
C3_Witness ==
    /\ req.fn \in FindFirstFns
    /\ pc = "ff_ret"
    /\ ffret # None
    /\ EarliestMatch(1) > 1
    /\ \E j \in 1..Len(Inv(1)) :
          /\ j > EarliestMatch(1)
          /\ Matches(Inv(1)[j], TraversalValue(1))

\* C4: in find-first the number of continue-paged-result calls equals the
\* number of pages that precede the page of the first match (the number of
\* pages minus one when nothing matches, none for an absent result); no page is fetched before every
\* entry of the page held has been examined without a match, and the page
\* held is the one the last fetch returned.
C4_FetchCount ==
    req.fn \in FindFirstFns =>
      \A q \in 1..Len(queries) :
        LET m == EarliestMatch(q)
            needed == IF m > 0 THEN PageOf(m) - 1
                      ELSE IF NumPages(q) = 0 THEN 0 ELSE NumPages(q) - 1
            fetched == Len(SelectSeq(Continues(q), LAMBDA c : c.ok))
        IN  /\ Len(Continues(q)) <= needed
            /\ RanToEnd(q) => Len(Continues(q)) = needed
            /\ (q = Len(queries) /\ pc = "ff") =>
                 /\ results = ServerPage(Inv(q), pageSize, q, fetched + 1)
                 /\ \A i \in 1..(fetched * pageSize) :
                       ~Matches(Inv(q)[i], TraversalValue(q))

\* page1 (no match, token), page2 (match, no token): one fetch, no cancel.
C4_Witness ==
    /\ req.fn \in FindFirstFns
    /\ pc = "ff_ret"
    /\ NumPages(1) = 2
    /\ PageOf(EarliestMatch(1)) = 2
    /\ Len(Continues(1)) = 1
    /\ Len(Cancels(1)) = 0
    /\ ffret # None

\* Every token call passes the token of the page held when it is made, and
\* no earlier call passed the same token.
C5_TokenCallsWellFormed ==
    \A i \in 1..Len(calls) :
      IsTokenCall(calls[i]) =>
        LET before == SubSeq(calls, 1, i - 1)
            q == Len(SelectSeq(before,
                     LAMBDA c : IsPagedQuery(c) /\ c.ok))
            fetched == Len(SelectSeq(before,
                     LAMBDA c : c.method = "continue_to_get_objects"
                                /\ c.arg.query = q /\ c.ok))
        IN  /\ \A j \in 1..(i - 1) :
                 IsTokenCall(calls[j]) => calls[j].arg # calls[i].arg
            /\ calls[i].arg = Token(q, fetched + 1)

\* A step taken once a traversal has returned issues no token call.
C5_NoUseAfterReturn ==
    (pc \in {"ff_ret", "done"}) =>
       \A i \in (Len(calls) + 1)..Len(calls') : ~IsTokenCall(calls'[i])

\* C5: within one traversal every continuation token is passed at most once
\* to continue-paged-result or cancel-paged-result (never to both, never
\* twice), it is the token of the page held at that moment, and no token is
\* used once the traversal has returned.
C5_TokenConsumedAtMostOnce ==
    [](C5_TokenCallsWellFormed) /\ [][C5_NoUseAfterReturn]_vars

\* Three pages: two tokens, each continued once.
C5_Witness ==
    /\ pc \in {"ff_ret", "done"}
    /\ \E q \in 1..Len(queries) :
         /\ Len(Continues(q)) = 2
         /\ Continues(q)[1].arg # Continues(q)[2].arg

----------------------------------------------------------------------------
\* get_vm_ref

\* Position of the first VM whose name property equals value, 0 for none.
EarliestVM(value) ==
    LET vms  == inventory["VirtualMachine"]
        hits == {i \in 1..Len(vms) :
                    Len(vms[i].propSet) > 0 /\ vms[i].propSet[1].val = value}
    IN  IF hits = {} THEN 0
        ELSE CHOOSE i \in hits : \A j \in hits : i <= j

GetObjectsCalls == SelectSeq(calls, LAMBDA c : c.method = "get_objects")

\* C9: get_vm_ref runs the uuid traversal first and starts the name traversal
\* only after the uuid traversal has completed with a miss; a uuid hit
\* returns that reference with no name query issued; a uuid miss followed by
\* a name hit returns the name-matched reference; if both miss,
\* InstanceNotFound keyed by the uuid is raised and no reference is returned.
C9_UuidThenName ==
    req.fn = "get_vm_ref" =>
      LET vms == inventory["VirtualMachine"]
          u   == EarliestVM(req.instance.uuid)
          n   == EarliestVM(req.instance.name)
          nq  == Len(GetObjectsCalls)
      IN  /\ nq <= 2
          /\ nq = 2 =>
               /\ u = 0
               /\ calls[1].method = "get_objects"
               /\ LET second == CHOOSE i \in 2..Len(calls) :
                                   /\ calls[i].method = "get_objects"
                                   /\ \A j \in 2..(i - 1) :
                                         calls[j].method # "get_objects"
                  IN  /\ second = IF NumPages(1) = 0 THEN 2 ELSE NumPages(1) + 1
                      /\ \A j \in 2..(second - 1) :
                            /\ calls[j].method = "continue_to_get_objects"
                            /\ calls[j].arg.query = 1
                      /\ \A j \in (second + 1)..Len(calls) :
                            IsTokenCall(calls[j]) /\ calls[j].arg.query = 2
          /\ (pc = "done" /\ ret.kind = "return") =>
               /\ ret.val # None
               /\ IF u > 0
                  THEN ret.val = vms[u].obj /\ nq = 1
                  ELSE n > 0 /\ ret.val = vms[n].obj /\ nq = 2
          /\ (pc = "done" /\ ret.kind = "raise"
                /\ ret.exc \notin {"TransportFailure", "IndexError"}) =>
               /\ ret = Raise("InstanceNotFound", req.instance.uuid)
               /\ u = 0 /\ n = 0 /\ nq = 2

\* A uuid miss over two pages followed by a name hit.
C9_Witness ==
    /\ req.fn = "get_vm_ref"
    /\ pc = "done"
    /\ ret.kind = "return"
    /\ Len(GetObjectsCalls) = 2
    /\ Len(Continues(1)) >= 1

----------------------------------------------------------------------------
\* get_datastore_ref_and_name

Datastores == inventory["Datastore"]

\* The value of the property called name among the properties of entry e.
PropertyOf(e, name) ==
    e.propSet[CHOOSE k \in 1..Len(e.propSet) : e.propSet[k].name = name].val

\* Entry e is an accessible VMFS or NFS datastore whose name matches the
\* pattern of the request, when it has one.
Qualifies(e) ==
    /\ Len(e.propSet) > 0
    /\ PropertyOf(e, "summary.type") \in {"VMFS", "NFS"}
    /\ PropertyOf(e, "summary.accessible")
    /\ \/ req.datastore_regex = None
       \/ LET pat == req.datastore_regex.pattern
              nm  == PropertyOf(e, "summary.name")
          IN  /\ Len(nm) >= Len(pat)
              /\ \A k \in 1..Len(pat) : nm[k] = pat[k]

\* Position of the first qualifying datastore in arrival order, 0 for none.
EarliestDatastore ==
    LET hits == {i \in 1..Len(Datastores) : Qualifies(Datastores[i])}
    IN  IF hits = {} THEN 0
        ELSE CHOOSE i \in hits : \A j \in hits : i <= j

\* The scan has found a datastore (and returned it, or failed to cancel).
DatastoreFound ==
    /\ req.fn = "get_datastore_ref_and_name"
    /\ pc = "done"
    /\ \/ ret.kind = "return"
       \/ ret = Raise("TransportFailure", "cancel_retrieve")

\* C6: in the datastore full-scan, when a qualifying datastore is found on
\* some page, exactly one cancel call is issued if that page carries a
\* continuation token and none otherwise, the number of next-page fetches
\* equals the number of pages before the matching page, and no remote call
\* is made after the match.
C6_FullScanCalls ==
    DatastoreFound =>
      LET m == EarliestDatastore
          p == PageOf(m)
          first == CHOOSE i \in 1..Len(calls) :
                      /\ IsTokenCall(calls[i])
                      /\ \A j \in 1..(i - 1) : ~IsTokenCall(calls[j])
          tokenCalls == SelectSeq(calls, IsTokenCall)
      IN  /\ m > 0
          /\ Len(Continues(1)) = p - 1
          /\ Len(Cancels(1)) = IF PageHasToken(1, p) THEN 1 ELSE 0
          /\ tokenCalls = Continues(1) \o Cancels(1)
          /\ Len(Cancels(1)) = 1 => Cancels(1)[1].arg = Token(1, p)
          /\ tokenCalls # << >> =>
                \A j \in first..Len(calls) : IsTokenCall(calls[j])

\* Only the second page qualifies and it carries a trailing token: one
\* fetch, one cancel.
C6_Witness ==
    /\ DatastoreFound
    /\ ret.kind = "return"
    /\ PageOf(EarliestDatastore) = 2
    /\ Len(Continues(1)) = 1
    /\ Len(Cancels(1)) = 1

\* C7: datastore selection returns (reference, name, capacity, free space)
\* of the first datastore in arrival order across all pages whose type is
\* VMFS or NFS, which is accessible and whose name matches the name pattern
\* when one is supplied; the four values come from that one entry.
C7_FirstQualifyingDatastore ==
    (req.fn = "get_datastore_ref_and_name" /\ pc = "done"
       /\ ret.kind = "return") =>
      LET m == EarliestDatastore
      IN  /\ m > 0
          /\ ret.val = DatastoreTuple(
                          Datastores[m].obj,
                          PropertyOf(Datastores[m], "summary.name"),
                          PropertyOf(Datastores[m], "summary.capacity"),
                          PropertyOf(Datastores[m], "summary.freeSpace"))

\* A pattern is supplied, the datastore returned is on the second page,
\* after an accessible VMFS datastore the pattern rejects, and another
\* qualifying datastore follows it.
C7_Witness ==
    /\ req.fn = "get_datastore_ref_and_name"
    /\ pc = "done"
    /\ ret.kind = "return"
    /\ req.datastore_regex # None
    /\ PageOf(EarliestDatastore) = 2
    /\ PropertyOf(Datastores[1], "summary.accessible")
    /\ PropertyOf(Datastores[1], "summary.type") = "VMFS"
    /\ \E j \in 1..Len(Datastores) :
          j > EarliestDatastore /\ Qualifies(Datastores[j])

\* C8: whenever datastore selection ends without a qualifying datastore it
\* raises DatastoreNotFound rather than returning a value; the error carries
\* the pattern-specific message whenever a name pattern was supplied
\* (also when the initial query result is empty or absent) and the generic
\* message when none was; when the scoping cluster or host has no datastore
\* property, DatastoreNotFound is raised before any datastore page is
\* queried.
C8_NotFoundMessage ==
    (req.fn = "get_datastore_ref_and_name" /\ pc = "done") =>
      /\ ret.kind = "return" => EarliestDatastore > 0
      /\ (ret.kind = "raise" /\ ret.exc = "DatastoreNotFound"
            /\ Len(queries) = 1) =>
           ret.msg = IF req.datastore_regex # None
                     THEN RegexMessage ELSE DefaultMessage
      /\ LET scope == IF req.cluster # None THEN req.cluster ELSE req.host
         IN  (scope # None /\ scope.value \in NoDatastoreProperty
                /\ calls[1].ok) =>
               /\ ret.kind = "raise" /\ ret.exc = "DatastoreNotFound"
               /\ Len(calls) = 1
               /\ calls[1].method = "get_dynamic_property"

----------------------------------------------------------------------------
\* get_all_cluster_refs_by_name

\* The names asked for, trimmed.
RequestedNames ==
    { LET p == req.path_list[i]
          lo == CHOOSE a \in 1..(Len(p) + 1) :
                   /\ \A k \in 1..(a - 1) : p[k] = " "
                   /\ a <= Len(p) => p[a] # " "
          hi == CHOOSE b \in 0..Len(p) :
                   /\ \A k \in (b + 1)..Len(p) : p[k] = " "
                   /\ b >= 1 => p[b] # " "
      IN  SubSeq(p, lo, hi) : i \in 1..Len(req.path_list) }

\* Every cluster and resource pool of the remote inventory, on any page.
AllClustersAndPools ==
    {inventory["ClusterComputeResource"][i] :
        i \in 1..Len(inventory["ClusterComputeResource"])}
    \cup {inventory["ResourcePool"][i] :
             i \in 1..Len(inventory["ResourcePool"])}

Named(e) == Len(e.propSet) > 0 /\ e.propSet[1].val \in RequestedNames

\* C10: for every requested display name (trimmed) and every cluster and
\* every resource pool of the remote inventory, on any result page of the
\* enumeration, whose name equals it, the returned mapping has an entry keyed
\* by the object's identity value holding {cluster, resource pool, display
\* name}, a resource pool paired with its owning cluster and a cluster with
\* its default resource pool; the mapping has no key for an object whose
\* name was not requested.
C10_MappingCoversInventory ==
    (req.fn = "get_all_cluster_refs_by_name" /\ pc = "done"
       /\ ret.kind = "return" /\ ret.val # None) =>
      /\ \A e \in AllClustersAndPools :
           Named(e) =>
             /\ e.obj.value \in DOMAIN ret.val.map
             /\ ret.val.map[e.obj.value] =
                  IF e.obj.type = "ResourcePool"
                  THEN [cluster_mor |-> OwnerOf(e.obj.value),
                        res_pool_mor |-> e.obj,
                        name |-> e.propSet[1].val]
                  ELSE [cluster_mor |-> e.obj,
                        res_pool_mor |-> RootPoolOf(e.obj.value),
                        name |-> e.propSet[1].val]
      /\ \A k \in DOMAIN ret.val.map :
           \E e \in AllClustersAndPools : e.obj.value = k /\ Named(e)

----------------------------------------------------------------------------
\* Enumeration failures

\* A round-trip of the enumeration of all clusters or of all resource pools
\* (the list call or the cancel call that follows it) has failed.
EnumerationFailed ==
    \E i \in 1..Len(calls) :
       /\ calls[i].method \in {"get_objects", "cancel_retrieve"}
       /\ ~calls[i].ok

PropertyReads ==
    SelectSeq(calls, LAMBDA c : c.method = "get_dynamic_property")

\* C11: a failure of the remote enumeration of all clusters or of all
\* resource pools, in the list call or in the cancel call that follows it, is
\* never propagated: the enumeration yields no results and
\* get_all_cluster_refs_by_name returns an absent result, without raising
\* and without any per-object property read.
C11_EnumerationFailureSwallowed ==
    (req.fn = "get_all_cluster_refs_by_name" /\ EnumerationFailed) =>
      /\ pc = "done"
      /\ ret = Return(None)
      /\ cls = None \/ res = None
      /\ Len(PropertyReads) = 0
      /\ ~calls[Len(calls)].ok

\* The clusters were listed, the listing of the resource pools succeeded
\* and the cancel call for its token failed.
C11_Witness ==
    /\ req.fn = "get_all_cluster_refs_by_name"
    /\ pc = "done"
    /\ cls # None
    /\ Len(calls) >= 3
    /\ calls[Len(calls)].method = "cancel_retrieve"
    /\ ~calls[Len(calls)].ok
    /\ calls[Len(calls) - 1] = Call("get_objects", "ResourcePool", TRUE)
    /\ ret = Return(None)

----------------------------------------------------------------------------
\* get_host_ref_for_vm

\* The property result holds a 'runtime.host' property.
HasRuntimeHost(ps) ==
    \E i \in 1..Len(ps.objects) :
       HasKey(ps.objects[i].propSet, "runtime.host")

\* The reference value of the first 'runtime.host' property of the result.
RuntimeHostOf(ps) ==
    LET i == CHOOSE k \in 1..Len(ps.objects) :
                /\ HasKey(ps.objects[k].propSet, "runtime.host")
                /\ \A j \in 1..(k - 1) :
                      ~HasKey(ps.objects[j].propSet, "runtime.host")
        propSet == ps.objects[i].propSet
        n == CHOOSE k \in 1..Len(propSet) :
                /\ propSet[k].name = "runtime.host"
                /\ \A j \in 1..(k - 1) : propSet[j].name # "runtime.host"
    IN  propSet[n].val.value

HostQueries ==
    SelectSeq(calls, LAMBDA c : c.method = "get_objects"
                                  /\ c.arg = "HostSystem")

----------------------------------------------------------------------------
\* Spec builders

BuilderFns ==
    {"get_vm_create_spec", "get_vmdk_attach_config_spec",
     "get_cdrom_attach_config_spec", "get_dummy_vm_create_spec"}

\* A builder call has returned its payload.
Built(fn) == req.fn = fn /\ pc = "done" /\ ret.kind = "return"

\* The device-change list of the payload returned.
DeviceChange == ret.val.deviceChange

\* C13: in the payload of one builder call (get_vm_create_spec with any
\* number of interface descriptors, get_vmdk_attach_config_spec,
\* get_cdrom_attach_config_spec, get_dummy_vm_create_spec) all devices added
\* with operation 'add' carry negative provisional keys that are pairwise
\* distinct within the payload.
C13_AddedKeysDistinct ==
    (req.fn \in BuilderFns /\ pc = "done") =>
      \A i \in 1..Len(DeviceChange) :
        DeviceChange[i].operation = "add" =>
          /\ DeviceChange[i].device.key < 0
          /\ \A j \in 1..Len(DeviceChange) :
               (j # i /\ DeviceChange[j].operation = "add") =>
                 DeviceChange[j].device.key # DeviceChange[i].device.key

ControllerKinds ==
    {"ns0:VirtualBusLogicController", "ns0:VirtualLsiLogicSASController",
     "ns0:VirtualLsiLogicController"}

\* C14: get_vmdk_attach_config_spec with no explicit controller key yields,
\* for adapter kind 'ide', exactly one device-change entry, the disk, whose
\* controllerKey is the IDE key 200, and for any other adapter kind exactly
\* two entries in the order controller, disk, the controller with key -101
\* and the disk's controllerKey equal to it; with an explicit controller key
\* it yields exactly one entry, the disk, referencing the given key.
C14_AttachEntries ==
    Built("get_vmdk_attach_config_spec") =>
      LET n == Len(DeviceChange)
          disk == DeviceChange[n].device
      IN  /\ disk.kind = "ns0:VirtualDisk"
          /\ IF req.controller_key # None
             THEN n = 1 /\ disk.controllerKey = req.controller_key.val
             ELSE IF req.adapter_type = "ide"
             THEN n = 1 /\ disk.controllerKey = 200
             ELSE /\ n = 2
                  /\ DeviceChange[1].device.kind \in ControllerKinds
                  /\ DeviceChange[1].operation = "add"
                  /\ DeviceChange[1].device.key = -101
                  /\ disk.controllerKey = DeviceChange[1].device.key

\* A busLogic disk attached with no controller key: controller, then disk.
C14_Witness ==
    /\ Built("get_vmdk_attach_config_spec")
    /\ req.controller_key = None
    /\ req.adapter_type = "busLogic"
    /\ Len(DeviceChange) = 2
    /\ DeviceChange[1].device.kind = "ns0:VirtualBusLogicController"

\* The backing the disk of the attach payload was built with: the device's
\* backing, or under a linked clone the backing it was copied from.
DiskOf == DeviceChange[Len(DeviceChange)].device

OriginalBacking ==
    IF req.linked_clone THEN DiskOf.backing.parent ELSE DiskOf.backing

IsSet(obj, name) == name \in DOMAIN obj /\ obj[name] = TRUE

\* C15: for every disk type passed to create_virtual_disk_spec, 'thin' sets
\* thinProvisioned and not eagerlyScrub, 'eagerZeroedThick' sets eagerlyScrub
\* and not thinProvisioned, 'preallocated' or an unrecognized value sets
\* neither, and 'rdm' / 'rdmp' select the raw-disk-mapping backing with
\* compatibility mode 'virtualMode' / 'physicalMode' and set neither; so the
\* two flags are never both set and neither is set on a backing that is not
\* a flat file.
C15_DiskTypeFlags ==
    Built("get_vmdk_attach_config_spec") =>
      \A b \in {OriginalBacking, DiskOf.backing} :
        LET thin  == IsSet(b, "thinProvisioned")
            eager == IsSet(b, "eagerlyScrub")
            flat  == b.kind = "ns0:VirtualDiskFlatVer2BackingInfo"
            rdm   == b.kind = "ns0:VirtualDiskRawDiskMappingVer1BackingInfo"
        IN  /\ req.disk_type = "thin" => flat /\ thin /\ ~eager
            /\ req.disk_type = "eagerZeroedThick" => flat /\ eager /\ ~thin
            /\ req.disk_type \in {"preallocated", "sparse"} =>
                 flat /\ ~thin /\ ~eager
            /\ req.disk_type = "rdm" =>
                 rdm /\ b.compatibilityMode = "virtualMode" /\ ~thin /\ ~eager
            /\ req.disk_type = "rdmp" =>
                 rdm /\ b.compatibilityMode = "physicalMode" /\ ~thin /\ ~eager
            /\ ~(thin /\ eager)
            /\ ~flat => ~thin /\ ~eager

\* An unrecognized disk type, and a linked clone of it.
C15_Witness ==
    /\ Built("get_vmdk_attach_config_spec")
    /\ req.disk_type = "sparse"
    /\ req.linked_clone
    /\ OriginalBacking.kind = "ns0:VirtualDiskFlatVer2BackingInfo"

\* C16: with a linked clone the device's backing is a record of its own whose
\* file name is empty and whose parent is the original backing; the original
\* backing holds the supplied file path and has no parent, and every other
\* field of the clone equals the original's.  Without linked clone the
\* device's backing is the original backing and has no parent.
C16_LinkedCloneBacking ==
    Built("get_vmdk_attach_config_spec") =>
      LET b == DiskOf.backing
          supplied == IF req.file_path = None THEN "" ELSE req.file_path.val
      IN  IF req.linked_clone
          THEN /\ "parent" \in DOMAIN b
               /\ b # b.parent
               /\ b.fileName = ""
               /\ b.parent.fileName = supplied
               /\ "parent" \notin DOMAIN b.parent
               /\ DOMAIN b = DOMAIN b.parent \cup {"parent"}
               /\ \A k \in DOMAIN b.parent \ {"fileName"} : b[k] = b.parent[k]
          ELSE /\ "parent" \notin DOMAIN b
               /\ b.fileName = supplied

\* A linked clone of a thin disk with a file path.
C16_Witness ==
    /\ Built("get_vmdk_attach_config_spec")
    /\ req.linked_clone
    /\ req.file_path # None
    /\ req.disk_type = "thin"
    /\ DiskOf.backing.parent.fileName = req.file_path.val

\* C18: no spec builder modifies its arguments: after any builder call (in
\* particular create_network_spec / get_vm_create_spec on an interface
\* descriptor whose device model is 'e1000') every caller-supplied input
\* record is unchanged.
C18_ArgumentsUnchanged == [][req' = req]_vars

\* The interface carries an external port identifier.
CarriesId(vif_info) == vif_info.iface_id # None /\ vif_info.iface_id.val # ""

\* C19: get_vm_create_spec produces one network-adapter device-change entry
\* per interface descriptor, in input order, and an option list whose first
\* entry is the VM-identity tag, followed by exactly one 'iface-id.<n>' entry
\* for each interface that carries an external port identifier, in interface
\* order, n running from 0 over those interfaces (an interface without
\* identifier contributes no entry and consumes no index).
C19_AdaptersAndOptions ==
    Built("get_vm_create_spec") =>
      LET vifs == req.vif_infos
          ids  == SelectSeq(vifs, CarriesId)
          ec   == ret.val.extraConfig
      IN  /\ Len(DeviceChange) = Len(vifs)
          /\ \A k \in 1..Len(vifs) :
               /\ DeviceChange[k].operation = "add"
               /\ DeviceChange[k].device.macAddress = vifs[k].mac_address
               /\ DeviceChange[k].device.addressType = "manual"
          /\ Len(ec) = 1 + Len(ids)
          /\ ec[1].key = <<"nvp.vm-uuid">>
          /\ ec[1].value = req.instance.uuid
          /\ \A j \in 1..Len(ids) :
               /\ ec[j + 1].key = <<"nvp.iface-id.", j - 1>>
               /\ ec[j + 1].value = ids[j].iface_id.val

\* An interface without identifier followed by one with an identifier,
\* which gets index 0.
C19_Witness ==
    /\ Built("get_vm_create_spec")
    /\ Len(req.vif_infos) = 2
    /\ ~CarriesId(req.vif_infos[1])
    /\ CarriesId(req.vif_infos[2])
    /\ Len(ret.val.extraConfig) = 2

----------------------------------------------------------------------------
\* Datastore path codec

NoBracket(str) == \A i \in 1..Len(str) : str[i] \notin {"[", "]"}

\* str with its surrounding whitespace trimmed: the part from its first to
\* its last character that is no whitespace.
Trimmed(str) ==
    LET solid == {i \in 1..Len(str) : str[i] \notin {" ", "\t", "\n"}}
    IN  IF solid = {} THEN << >>
        ELSE SubSeq(str, CHOOSE i \in solid : \A j \in solid : i <= j,
                         CHOOSE i \in solid : \A j \in solid : j <= i)

\* C17: for every datastore name and path that hold no '[' or ']',
\* split_datastore_path(build_datastore_path(name, path)) is (name, path
\* with its surrounding whitespace trimmed); an empty or all-whitespace path
\* comes back as the empty path.
C17_RoundTrip ==
    (req.fn = "build_datastore_path" /\ pc = "done"
       /\ NoBracket(req.datastore_name) /\ NoBracket(req.path)) =>
      ret = Return(Tuple(<<req.datastore_name, Trimmed(req.path)>>))

\* A name with a blank in it and a path with whitespace on both sides.
C17_Witness ==
    /\ req.fn = "build_datastore_path"
    /\ pc = "done"
    /\ req.datastore_name = <<" ", "a">>
    /\ req.path = <<" ", "a", " ">>
    /\ ret.kind = "return"
    /\ ret.val.items[2] = <<"a">>

----------------------------------------------------------------------------
\* Cluster statistics, read off the inventory

StatsDone == req.fn = "get_stats_from_cluster" /\ pc = "done"

ClusterProperties == inventory["ClusterComputeResource"][1].propSet

HasHostList == HasKey(ClusterProperties, "host")

HasResourcePool == HasKey(ClusterProperties, "resourcePool")

\* The hosts returned for the cluster: the entries of the result the host
\* read answers with.
HostsReturned ==
    IF HasHostList
    THEN SubSeq(inventory["HostSystem"], 1,
                Min(pageSize, Len(inventory["HostSystem"])))
    ELSE << >>

HardwareOf(e) == e.propSet[1].val

RECURSIVE Total(_)
Total(numbers) ==
    IF numbers = << >> THEN 0 ELSE Head(numbers) + Total(Tail(numbers))

\* The memory usage the resource pool of the cluster reports, if any.
PoolUsage ==
    IF HasResourcePool /\ inventory["ResourcePool"][1].propSet # << >>
    THEN inventory["ResourcePool"][1].propSet[1].val
    ELSE None

\* megabytes is the floor of bytes / 2^20.
WholeMegabytes(bytes, megabytes) ==
    /\ megabytes * 1024 * 1024 <= bytes
    /\ bytes < (megabytes + 1) * 1024 * 1024

AllCallsSucceeded == \A i \in 1..Len(calls) : calls[i].ok

----------------------------------------------------------------------------
\* The dummy VM payload

\* C21: in the payload built by get_dummy_vm_create_spec the device-change
\* list is controller, disk in that order, the disk's controllerKey equals
\* the provisional key -101 of the controller added before it in the same
\* list, and the disk uses the default backing of 'preallocated': a flat
\* file with neither thinProvisioned nor eagerlyScrub set.
C21_DummyDiskOnItsController ==
    Built("get_dummy_vm_create_spec") =>
      /\ Len(DeviceChange) = 2
      /\ DeviceChange[1].device.kind \in ControllerKinds
      /\ DeviceChange[2].device.kind = "ns0:VirtualDisk"
      /\ DeviceChange[1].device.key = -101
      /\ DeviceChange[2].device.controllerKey = DeviceChange[1].device.key
      /\ DeviceChange[2].device.backing.kind =
            "ns0:VirtualDiskFlatVer2BackingInfo"
      /\ ~IsSet(DeviceChange[2].device.backing, "thinProvisioned")
      /\ ~IsSet(DeviceChange[2].device.backing, "eagerlyScrub")

----------------------------------------------------------------------------
\* Termination of the paged scans

\* The i-th continue call of a traversal passes the token of page i, so it
\* fetches page i + 1, a page not scanned before, and there are at most
\* (number of pages - 1) of them.
C22_ContinuesBounded ==
    \A q \in 1..Len(queries) :
      /\ Len(Continues(q)) <= IF NumPages(q) = 0 THEN 0 ELSE NumPages(q) - 1
      /\ \A i \in 1..Len(Continues(q)) : Continues(q)[i].arg.page = i

\* A call that has ended has ended with a result (a match or not-found) or
\* with an error.
C22_EndsWithOutcome == pc = "done" => ret.kind \in {"return", "raise"}

\* C22: over any finite chain of result pages, every remote call returning,
\* find-first and the datastore full scan always terminate - with a match,
\* with not-found or with an error - after at most (number of pages - 1)
\* continue calls, and no continue call fetches a page already scanned.
C22_ScansTerminate ==
    /\ [](C22_ContinuesBounded /\ C22_EndsWithOutcome)
    /\ <>(pc = "done")

\* Three pages scanned to the end, two continue calls, and the call has
\* returned.
C22_Witness ==
    /\ pc = "done"
    /\ ret.kind = "return"
    /\ \E q \in 1..Len(queries) :
         /\ NumPages(q) = 3
         /\ Len(Continues(q)) = 2
         /\ \A i \in 1..2 : Continues(q)[i].ok

====
